---- MODULE Spec2Model ----
(***************************************************************************)
(* Run analysis and caching engine of the AIOpsLab viewer server:          *)
(* the run store on disk, the SQLite table "runs", the fingerprint         *)
(* (calculateRunHash), the metric extractor (analyzeRunData), the status   *)
(* classifier (determineRunStatus) and the HTTP handlers of server.js      *)
(* that combine them.                                                      *)
(*                                                                         *)
(* Strings that the code inspects character by character (run ids, file    *)
(* names, the text fed to SHA-256) are sequences of one-character strings. *)
(* SHA-256 is idealised as injective: a digest is the text it was fed.     *)
(* crypto.randomBytes is idealised as never repeating: a random digest     *)
(* carries the number of the draw.                                         *)
(***************************************************************************)
EXTENDS Integers, Sequences, FiniteSets, TLC

VARIABLES fs, store, now, rnd, dbUp, last, steps, probe, uploads

vars == <<fs, store, now, rnd, dbUp, last, steps, probe, uploads>>

(***************************************************************************)
(* Bounds of the model.                                                    *)
(***************************************************************************)
\* number of requests and environment events in one behaviour
MaxSteps == 3

(***************************************************************************)
(* Characters and strings.                                                 *)
(***************************************************************************)
Digits == <<"0", "1", "2", "3", "4", "5", "6", "7", "8", "9">>

\* the characters of the model in the order of their UTF-16 code units,
\* the order Array.prototype.sort compares strings by
CodeUnitOrder ==
    <<"-", ".">> \o Digits \o <<":", "A", "D", "E", "M", "R", "T", "Z", "_">>
    \o <<"a", "b", "c", "d", "e", "f", "g", "l", "m", "o", "p", "s", "t", "v", "x">>

CodeOf(c) == CHOOSE i \in 1..Len(CodeUnitOrder) : CodeUnitOrder[i] = c

IsDigit(c) == \E i \in 1..Len(Digits) : Digits[i] = c

IsLowerHex(c) == IsDigit(c) \/ c \in {"a", "b", "c", "d", "e", "f"}

\* String(n) of a non-negative integer
RECURSIVE NumberToString(_)
NumberToString(n) ==
    IF n < 10 THEN <<Digits[n + 1]>>
    ELSE NumberToString(n \div 10) \o <<Digits[(n % 10) + 1]>>

\* s.endsWith(suffix)
EndsWith(s, suffix) ==
    /\ Len(s) >= Len(suffix)
    /\ SubSeq(s, Len(s) - Len(suffix) + 1, Len(s)) = suffix

\* a < b in the order of Array.prototype.sort without a comparator
RECURSIVE StringLess(_, _)
StringLess(a, b) ==
    IF a = <<>> THEN b # <<>>
    ELSE IF b = <<>> THEN FALSE
    ELSE IF a[1] # b[1] THEN CodeOf(a[1]) < CodeOf(b[1])
    ELSE StringLess(Tail(a), Tail(b))

\* names.sort(): insertion of each name before the first greater one
RECURSIVE SortNames(_)
SortInsert(sorted, x) ==
    LET k == Cardinality({i \in 1..Len(sorted) : ~StringLess(x, sorted[i])})
    IN SubSeq(sorted, 1, k) \o <<x>> \o SubSeq(sorted, k + 1, Len(sorted))
SortNames(names) ==
    IF names = <<>> THEN <<>>
    ELSE SortInsert(SortNames(SubSeq(names, 1, Len(names) - 1)), names[Len(names)])

\* runId.match(/^\d{8}-[a-f0-9]+$/)
MatchesRunId(s) ==
    /\ Len(s) >= 10
    /\ \A i \in 1..8 : IsDigit(s[i])
    /\ s[9] = "-"
    /\ \A i \in 10..Len(s) : IsLowerHex(s[i])

DotMd == <<".", "m", "d">>
ReadmeMd == <<"R", "E", "A", "D", "M", "E">> \o DotMd
LogTxt == <<"l", "o", "g", ".", "t", "x", "t">>

(***************************************************************************)
(* Values.                                                                 *)
(***************************************************************************)
\* a property that an object does not have, or a NULL column, where a
\* number is expected; every comparison with it is false
Undefined == -1

\* the same where a string is expected
NullStr == "<null>"

\* o[f] of a JavaScript object: undefined when o has no property f
GetNum(o, f) == IF f \in DOMAIN o THEN o[f] ELSE Undefined
GetStr(o, f) == IF f \in DOMAIN o THEN o[f] ELSE NullStr

\* a >= b, a > b, a < b of JavaScript for a number or undefined on the left
JsGE(a, b) == a # Undefined /\ a >= b
JsGT(a, b) == a # Undefined /\ a > b
JsLT(a, b) == a # Undefined /\ a < b

\* v || d for a number (undefined, NaN and 0 are falsy)
NumOr(v, d) == IF v = Undefined \/ v = 0 THEN d ELSE v

\* v || d for a string (undefined, null and "" are falsy)
StrOr(v, d) == IF v = NullStr \/ v = "" THEN d ELSE v

\* {...a, ...b}
Spread(a, b) ==
    [f \in DOMAIN a \cup DOMAIN b |-> IF f \in DOMAIN b THEN b[f] ELSE a[f]]

(***************************************************************************)
(* Log texts.  A text is described by its byte length, the marker phrases  *)
(* that occur in it and what the patterns of the metric extractor match    *)
(* in its "Results: {...}" block (block.present = FALSE: no block).        *)
(***************************************************************************)
Markers == {"Fatal error", "Terminated", "root cause", "solution", "resolved"}

NoBlock ==
    [present |-> FALSE, Detection_Accuracy |-> NullStr, TTD |-> Undefined,
     steps |-> Undefined, in_tokens |-> Undefined, out_tokens |-> Undefined,
     reasoning_score |-> Undefined, reasoning_judgement |-> NullStr]

\* a session that found the root cause and was judged 9/10
GoodLog ==
    [size |-> 10, markers |-> {"root cause"},
     block |-> [present |-> TRUE, Detection_Accuracy |-> "Correct", TTD |-> 100,
                steps |-> 20, in_tokens |-> 7, out_tokens |-> 4,
                reasoning_score |-> 9, reasoning_judgement |-> "sound"]]

\* a session of the same length that was terminated before any result
FatalLog == [size |-> 10, markers |-> {"Terminated"}, block |-> NoBlock]

\* a slow session with a middling judgement and no accuracy entry
MidLog ==
    [size |-> 1, markers |-> {},
     block |-> [present |-> TRUE, Detection_Accuracy |-> NullStr, TTD |-> 700,
                steps |-> 0, in_tokens |-> Undefined, out_tokens |-> Undefined,
                reasoning_score |-> 6, reasoning_judgement |-> ""]]

LogTexts == {GoodLog, FatalLog, MidLog}

(***************************************************************************)
(* The run store on disk: fs maps the name of every entry of runsDir to a  *)
(* directory.  A directory has the times of fs.statSync, a log.txt or      *)
(* none, and its other entries in the order fs.readdirSync lists them.     *)
(* readable = FALSE: fs.readdirSync on the directory throws.               *)
(***************************************************************************)
NoFile == [exists |-> FALSE, mtime |-> 0, text |-> FatalLog]

LogFile(t, text) == [exists |-> TRUE, mtime |-> t, text |-> text]

Entry(name, t, size, isFile) ==
    [name |-> name, mtime |-> t, size |-> size, isFile |-> isFile]

NewDir(t) ==
    [readable |-> TRUE, birthtime |-> t, mtime |-> t, log |-> NoFile, entries |-> <<>>]

\* fs.existsSync(runPath)
ExistsSync(fsys, id) == id \in DOMAIN fsys

\* fs.existsSync(path.join(runPath, 'log.txt'))
LogExists(fsys, id) == ExistsSync(fsys, id) /\ fsys[id].log.exists

\* fs.existsSync(path.join(runPath, name))
EntryExists(fsys, id, name) ==
    /\ ExistsSync(fsys, id)
    /\ \/ name = LogTxt /\ fsys[id].log.exists
       \/ \E i \in 1..Len(fsys[id].entries) : fsys[id].entries[i].name = name

\* fs.readdirSync(runPath) returns (does not throw)
CanReaddir(fsys, id) == ExistsSync(fsys, id) /\ fsys[id].readable

EntryNames(dir) == [i \in 1..Len(dir.entries) |-> dir.entries[i].name]

EntryOf(dir, name) ==
    dir.entries[CHOOSE i \in 1..Len(dir.entries) : dir.entries[i].name = name]

\* the directory after a file name is written at time t: a new entry is
\* listed last, an existing one is overwritten in place
WriteEntry(dir, name, t, size) ==
    IF \E i \in 1..Len(dir.entries) : dir.entries[i].name = name
    THEN [dir EXCEPT !.entries =
             [i \in 1..Len(dir.entries) |->
                 IF dir.entries[i].name = name
                 THEN Entry(name, t, size, dir.entries[i].isFile)
                 ELSE dir.entries[i]]]
    ELSE [dir EXCEPT !.entries = Append(dir.entries, Entry(name, t, size, TRUE)),
                     !.mtime = t]

RemoveEntry(dir, name, t) ==
    [dir EXCEPT !.entries = SelectSeq(dir.entries, LAMBDA e : e.name # name),
                !.mtime = t]

WriteLog(dir, t, text) ==
    [dir EXCEPT !.log = LogFile(t, text),
                !.mtime = IF dir.log.exists THEN dir.mtime ELSE t]

\* fs.mkdirSync(runPath, { recursive: true }) when the directory is missing
Mkdir(fsys, id, t) ==
    IF ExistsSync(fsys, id) THEN fsys
    ELSE [x \in DOMAIN fsys \cup {id} |-> IF x = id THEN NewDir(t) ELSE fsys[x]]

(***************************************************************************)
(* Metric extractor and status classifier (server.js).                     *)
(***************************************************************************)
\* logContent.includes(marker) on the run's log.txt
LogIncludes(fsys, id, marker) == marker \in fsys[id].log.text.markers

DetermineStatusLate(analysis, fsys, id) ==
    IF ~LogExists(fsys, id) THEN "failed"
    ELSE IF LogIncludes(fsys, id, "Fatal error") \/ LogIncludes(fsys, id, "Terminated")
    THEN "failed"
    ELSE LET reasoningScore == GetNum(analysis, "reasoningScore")
             duration == GetNum(analysis, "duration")
             hasResolution ==
                 \/ LogIncludes(fsys, id, "root cause")
                 \/ LogIncludes(fsys, id, "solution")
                 \/ LogIncludes(fsys, id, "resolved")
                 \/ JsGE(reasoningScore, 8)
         IN IF hasResolution /\ JsGT(reasoningScore, 7) THEN "success"
            ELSE IF JsGE(reasoningScore, 5)
                    \/ (JsGT(duration, 0) /\ JsLT(duration, 600)) THEN "partial"
            ELSE "failed"

determineRunStatus(analysis, fsys, id) ==
    IF ~LogExists(fsys, id) THEN "failed"
    ELSE IF LogIncludes(fsys, id, "Fatal error") \/ LogIncludes(fsys, id, "Terminated")
    THEN "failed"
    ELSE LET reasoningScore == GetNum(analysis, "reasoningScore")
             duration == GetNum(analysis, "duration")
             hasResolution ==
                 \/ LogIncludes(fsys, id, "root cause")
                 \/ LogIncludes(fsys, id, "solution")
                 \/ LogIncludes(fsys, id, "resolved")
                 \/ JsGE(reasoningScore, 8)
         IN IF hasResolution /\ JsGE(reasoningScore, 7) THEN "success"
            ELSE IF JsGE(reasoningScore, 5)
                    \/ (JsGT(duration, 0) /\ JsLT(duration, 600)) THEN "partial"
            ELSE "failed"

\* the analysis object before the log is looked at
DefaultAnalysis ==
    [status |-> "unknown", duration |-> 0, reasoning_judgement |-> "N/A",
     detectionAccuracy |-> "Unknown", steps |-> 0, inputTokens |-> 0,
     outputTokens |-> 0, reasoningScore |-> 0,
     agentName |-> "unknown", applicationName |-> "unknown"]

analyzeRunData(fsys, id) ==
    LET metrics == fsys[id].log.text.block
        parsed ==
            IF LogExists(fsys, id) /\ metrics.present
            THEN [DefaultAnalysis EXCEPT
                     !.detectionAccuracy = StrOr(metrics.Detection_Accuracy, "Unknown"),
                     !.duration = NumOr(metrics.TTD, 0),
                     !.steps = NumOr(metrics.steps, 0),
                     !.inputTokens = NumOr(metrics.in_tokens, 0),
                     !.outputTokens = NumOr(metrics.out_tokens, 0),
                     !.reasoningScore = NumOr(metrics.reasoning_score, 0),
                     !.reasoning_judgement = StrOr(metrics.reasoning_judgement, "N/A")]
            ELSE DefaultAnalysis
    IN [parsed EXCEPT !.status = determineRunStatus(parsed, fsys, id)]

\* the first of base.md, base-1.md, base-2.md, ... that is no entry of the directory
RECURSIVE UniqueFrom(_, _, _, _)
UniqueFrom(fsys, id, baseName, counter) ==
    LET filename == IF counter = 0 THEN baseName \o DotMd
                    ELSE baseName \o <<"-">> \o NumberToString(counter) \o DotMd
    IN IF EntryExists(fsys, id, filename)
       THEN UniqueFrom(fsys, id, baseName, counter + 1)
       ELSE filename

\* a naming that never numbers
generateUnnumberedFilename(fsys, id, baseName) == baseName \o DotMd

generateUniqueEvaluationFilename(fsys, id, baseName) == UniqueFrom(fsys, id, baseName, 0)

discoverEvaluationFiles(fsys, id) ==
    IF CanReaddir(fsys, id)
    THEN EntryNames([fsys[id] EXCEPT !.entries =
             SelectSeq(fsys[id].entries,
                       LAMBDA e : EndsWith(e.name, DotMd) /\ e.name # ReadmeMd /\ e.isFile)])
    ELSE <<>>

(***************************************************************************)
(* Fingerprint (RunDatabase.calculateRunHash).                             *)
(***************************************************************************)
\* Date.prototype.toISOString: a text of fixed width
ToISOString(t) == <<"T", Digits[(t \div 10) + 1], Digits[(t % 10) + 1], "Z">>

\* `${file}:${stats.mtime.toISOString()}:${stats.size}`
HashLine(name, t, size) ==
    name \o <<":">> \o ToISOString(t) \o <<":">> \o NumberToString(size)

RECURSIVE HashLines(_, _)
HashLines(dir, names) ==
    IF names = <<>> THEN <<>>
    ELSE LET e == EntryOf(dir, Head(names))
         IN HashLine(e.name, e.mtime, e.size) \o HashLines(dir, Tail(names))

\* crypto.randomBytes(16).toString('hex'), the r-th draw
RandomDigest(r) == [random |-> TRUE, text |-> NumberToString(r)]

\* the draw of crypto.randomBytes is used: fs.readdirSync throws
HashIsRandom(fsys, id) == ~CanReaddir(fsys, id)

HashWithoutLog(fsys, id, r) ==
    IF HashIsRandom(fsys, id) THEN RandomDigest(r)
    ELSE LET dir == fsys[id]
             files == SortNames(SelectSeq(EntryNames(dir), LAMBDA n : EndsWith(n, DotMd)))
         IN [random |-> FALSE, text |-> HashLines(dir, files)]

calculateRunHash(fsys, id, r) ==
    IF HashIsRandom(fsys, id) THEN RandomDigest(r)
    ELSE LET dir == fsys[id]
             logPart == IF dir.log.exists
                        THEN HashLine(LogTxt, dir.log.mtime, dir.log.text.size)
                        ELSE <<>>
             files == SortNames(SelectSeq(EntryNames(dir), LAMBDA n : EndsWith(n, DotMd)))
         IN [random |-> FALSE, text |-> logPart \o HashLines(dir, files)]

(***************************************************************************)
(* The table "runs" (RunDatabase).  store maps the id of every row to the  *)
(* row as getRun returns it.                                               *)
(***************************************************************************)
\* getRun(runId) resolves to a row (not to null)
HasRow(st, id) == id \in DOMAIN st

\* the parameters of INSERT OR REPLACE, bound at time t
UpsertParams(runData, t) ==
    [id |-> runData.id,
     created_at |-> runData.created_at,
     modified_at |-> runData.modified_at,
     file_hash |-> runData.file_hash,
     status |-> runData.status,
     duration |-> GetNum(runData, "duration"),
     reasoning_judgement |-> GetStr(runData, "reasoning_judgement"),
     detection_accuracy |-> GetStr(runData, "detection_accuracy"),
     steps |-> GetNum(runData, "steps"),
     input_tokens |-> GetNum(runData, "input_tokens"),
     output_tokens |-> GetNum(runData, "output_tokens"),
     reasoning_score |-> GetNum(runData, "reasoning_score"),
     agent_name |-> StrOr(GetStr(runData, "agent_name"), "unknown"),
     application_name |-> StrOr(GetStr(runData, "application_name"), "unknown"),
     has_log_file |-> IF "has_log_file" \in DOMAIN runData
                      THEN runData.has_log_file ELSE FALSE,
     evaluation_files |-> IF "evaluation_files" \in DOMAIN runData
                          THEN runData.evaluation_files ELSE <<>>,
     evaluation_count |-> NumOr(GetNum(runData, "evaluation_count"), 0),
     last_analyzed_at |-> t]

\* an upsert that keeps the old row's value of every column not given
upsertMerging(st, runData, t) ==
    [x \in DOMAIN st \cup {runData.id} |->
        IF x # runData.id THEN st[x]
        ELSE IF x \in DOMAIN st
        THEN [f \in DOMAIN st[x] |->
                 IF f \in DOMAIN runData \/ f = "last_analyzed_at"
                 THEN UpsertParams(runData, t)[f] ELSE st[x][f]]
        ELSE UpsertParams(runData, t)]

\* the table after upsertRun(runData) at time t
upsertRun(st, runData, t) ==
    [x \in DOMAIN st \cup {runData.id} |->
        IF x = runData.id THEN UpsertParams(runData, t) ELSE st[x]]

\* needsReanalysis(runId, runPath); up: the lookup does not fail;
\* r: the draw of crypto.randomBytes, if one is made
NeedsFalseOnError(st, fsys, id, r, up) ==
    IF ~up THEN FALSE
    ELSE IF ~HasRow(st, id) THEN TRUE
    ELSE st[id].file_hash # calculateRunHash(fsys, id, r)

needsReanalysis(st, fsys, id, r, up) ==
    IF ~up THEN TRUE
    ELSE IF ~HasRow(st, id) THEN TRUE
    ELSE st[id].file_hash # calculateRunHash(fsys, id, r)

(***************************************************************************)
(* Requests.                                                               *)
(***************************************************************************)
V1 == <<"2", "0", "2", "5", "0", "7", "1", "5", "-", "5", "7", "f">>
BadId == <<"b", "a", "d">>

\* a second run of the same day, and a subdirectory that its session left behind
V2 == <<"2", "0", "2", "5", "0", "7", "1", "5", "-", "a", "0">>
SubDir == <<"o", "l", "d">>

RunIds == {V1, BadId}

\* the ids under which the diagnosis agent writes its sessions
SessionIds == {V1}

AMd == <<"a">> \o DotMd
EvalBase == <<"E", "v", "a", "l">>

\* entries that evaluators put into a run directory by hand
HandWrittenNames == {AMd}

\* request bodies of POST /api/runs
CreateBodies ==
    {[runId |-> V1, agentName |-> "alpha", applicationName |-> "shop"],
     [runId |-> V1, agentName |-> "alpha", applicationName |-> "shop",
      status |-> "created"],
     [runId |-> BadId, agentName |-> "alpha", applicationName |-> "shop"],
     [runId |-> V1, agentName |-> "alpha"],
     [agentName |-> "alpha", applicationName |-> "shop"]}

\* request bodies of PUT /api/runs/:runId
UpdateBodies ==
    {[agent_name |-> "unknown"], [evaluation_count |-> 3], [status |-> "archived"]}

\* multipart files of the upload requests
NoUpload == [present |-> FALSE, originalname |-> <<>>, mimetype |-> "", size |-> 0]

Upload(name, mime, size) ==
    [present |-> TRUE, originalname |-> name, mimetype |-> mime, size |-> size]

EvalUploads ==
    {Upload(<<"e">> \o DotMd, "text/markdown", 5),
     Upload(<<"e", ".", "t", "x", "t">>, "text/plain", 5),
     Upload(<<"e", ".", "o", "d", "t">>, "application/octet-stream", 5),
     NoUpload}

LogUpload(text) ==
    [present |-> TRUE, originalname |-> <<"s", ".", "t", "x", "t">>,
     mimetype |-> "text/plain", size |-> text.size, text |-> text]

LogUploads ==
    {LogUpload(GoodLog), LogUpload(MidLog),
     [present |-> FALSE, originalname |-> <<>>, mimetype |-> "", size |-> 0,
      text |-> FatalLog]}

\* multer's fileFilter accepts the file
FileFilter(file) ==
    \/ file.mimetype = "text/plain"
    \/ file.mimetype = "text/markdown"
    \/ EndsWith(file.originalname, <<".", "t", "x", "t">>)
    \/ EndsWith(file.originalname, DotMd)
    \/ EndsWith(file.originalname, <<".", "l", "o", "g">>)

\* `temp_${Date.now()}_${file.originalname}`
TempName(t, file) ==
    <<"t", "e", "m", "p", "_">> \o NumberToString(t) \o <<"_">> \o file.originalname

\* the answer to the last request: the handler, the run id of the request,
\* the HTTP status (0: no HTTP request), for needsReanalysis its result, and
\* how many times in a row this request got this answer with nothing but
\* the passing of time in between
Answer(op, id, code, answer) ==
    [op |-> op, id |-> id, code |-> code, answer |-> answer,
     streak |-> IF last.op = op /\ last.id = id /\ last.code = code
                THEN last.streak + 1 ELSE 1]

NoAnswer == [op |-> "start", id |-> <<>>, code |-> 0, answer |-> FALSE, streak |-> 0]

Step ==
    /\ steps < MaxSteps
    /\ steps' = steps + 1

\* (existingRun?.f && existingRun.f !== 'unknown') ? existingRun.f : fallback
NeverSticky(st, id, f, fallback) == fallback

StickyName(st, id, f, fallback) ==
    IF HasRow(st, id) /\ st[id][f] # "" /\ st[id][f] # "unknown"
    THEN st[id][f] ELSE fallback

(***************************************************************************)
(* POST /api/runs                                                          *)
(***************************************************************************)
CreateRunData(fsys, body, r, t) ==
    [id |-> body.runId,
     created_at |-> fsys[body.runId].birthtime,
     modified_at |-> t,
     file_hash |-> calculateRunHash(fsys, body.runId, r),
     has_log_file |-> LogExists(fsys, body.runId),
     evaluation_files |-> <<>>,
     evaluation_count |-> 0,
     status |-> IF "status" \in DOMAIN body THEN body.status ELSE "unknown",
     duration |-> IF "duration" \in DOMAIN body THEN body.duration ELSE 0,
     detection_accuracy |-> "Unknown",
     steps |-> 0,
     input_tokens |-> 0,
     output_tokens |-> 0,
     reasoning_score |-> 0,
     agent_name |-> body.agentName,
     application_name |-> body.applicationName]

CreateRun ==
    \E body \in CreateBodies :
        /\ Step
        /\ UNCHANGED <<now, dbUp, probe, uploads>>
        /\ IF \/ "runId" \notin DOMAIN body
              \/ "agentName" \notin DOMAIN body
              \/ "applicationName" \notin DOMAIN body
              \/ ~MatchesRunId(body.runId)
           THEN /\ last' = Answer("create",
                                  IF "runId" \in DOMAIN body THEN body.runId ELSE <<>>,
                                  400, FALSE)
                /\ UNCHANGED <<fs, store, rnd>>
           ELSE LET made == Mkdir(fs, body.runId, now)
                    runData == CreateRunData(made, body, rnd, now)
                IN /\ fs' = made
                   /\ rnd' = IF HashIsRandom(made, body.runId) THEN rnd + 1 ELSE rnd
                   /\ IF dbUp
                      THEN /\ store' = upsertRun(store, runData, now)
                           /\ last' = Answer("create", body.runId, 200, FALSE)
                      ELSE /\ store' = store
                           /\ last' = Answer("create", body.runId, 500, FALSE)

(***************************************************************************)
(* POST /api/runs/:runId/reanalyze                                         *)
(***************************************************************************)
ReanalyzeMergingFiles(st, fsys, id, r) ==
    LET runAnalysis == analyzeRunData(fsys, id)
        evaluationFiles ==
            (IF HasRow(st, id) THEN st[id].evaluation_files ELSE <<>>)
            \o discoverEvaluationFiles(fsys, id)
    IN [id |-> id,
        created_at |-> fsys[id].birthtime,
        modified_at |-> fsys[id].mtime,
        file_hash |-> calculateRunHash(fsys, id, r),
        has_log_file |-> LogExists(fsys, id),
        evaluation_files |-> evaluationFiles,
        evaluation_count |-> Len(evaluationFiles),
        status |-> runAnalysis.status,
        duration |-> runAnalysis.duration,
        reasoning_judgement |-> runAnalysis.reasoning_judgement,
        detection_accuracy |-> runAnalysis.detectionAccuracy,
        steps |-> runAnalysis.steps,
        input_tokens |-> runAnalysis.inputTokens,
        output_tokens |-> runAnalysis.outputTokens,
        reasoning_score |-> runAnalysis.reasoningScore,
        agent_name |-> StickyName(st, id, "agent_name", runAnalysis.agentName),
        application_name |->
            StickyName(st, id, "application_name", runAnalysis.applicationName)]

ReanalyzeRunData(st, fsys, id, r) ==
    LET runAnalysis == analyzeRunData(fsys, id)
        evaluationFiles == discoverEvaluationFiles(fsys, id)
    IN [id |-> id,
        created_at |-> fsys[id].birthtime,
        modified_at |-> fsys[id].mtime,
        file_hash |-> calculateRunHash(fsys, id, r),
        has_log_file |-> LogExists(fsys, id),
        evaluation_files |-> evaluationFiles,
        evaluation_count |-> Len(evaluationFiles),
        status |-> runAnalysis.status,
        duration |-> runAnalysis.duration,
        reasoning_judgement |-> runAnalysis.reasoning_judgement,
        detection_accuracy |-> runAnalysis.detectionAccuracy,
        steps |-> runAnalysis.steps,
        input_tokens |-> runAnalysis.inputTokens,
        output_tokens |-> runAnalysis.outputTokens,
        reasoning_score |-> runAnalysis.reasoningScore,
        agent_name |-> StickyName(st, id, "agent_name", runAnalysis.agentName),
        application_name |->
            StickyName(st, id, "application_name", runAnalysis.applicationName)]

Reanalyze ==
    \E id \in RunIds :
        /\ Step
        /\ UNCHANGED <<fs, now, dbUp, probe, uploads>>
        /\ IF ~ExistsSync(fs, id)
           THEN /\ last' = Answer("reanalyze", id, 404, FALSE)
                /\ UNCHANGED <<store, rnd>>
           ELSE IF ~dbUp
           THEN /\ last' = Answer("reanalyze", id, 500, FALSE)
                /\ UNCHANGED <<store, rnd>>
           ELSE /\ store' = upsertRun(store, ReanalyzeRunData(store, fs, id, rnd), now)
                /\ rnd' = IF HashIsRandom(fs, id) THEN rnd + 1 ELSE rnd
                /\ last' = Answer("reanalyze", id, 200, FALSE)

(***************************************************************************)
(* POST /api/runs/scan                                                     *)
(***************************************************************************)
\* fs.readdirSync(runsDir): the entries of runsDir, in the order of their names
RECURSIVE NamesOf(_)
NamesOf(S) ==
    IF S = {} THEN <<>>
    ELSE LET x == CHOOSE y \in S : TRUE IN SortInsert(NamesOf(S \ {x}), x)

ScanRunData(st, fsys, id, r) ==
    LET runAnalysis == analyzeRunData(fsys, id)
        evaluationFiles == discoverEvaluationFiles(fsys, id)
    IN [id |-> id,
        created_at |-> fsys[id].birthtime,
        modified_at |-> fsys[id].mtime,
        file_hash |-> calculateRunHash(fsys, id, r),
        has_log_file |-> LogExists(fsys, id),
        evaluation_files |-> evaluationFiles,
        evaluation_count |-> Len(evaluationFiles),
        status |-> runAnalysis.status,
        duration |-> runAnalysis.duration,
        reasoning_judgement |-> runAnalysis.reasoning_judgement,
        detection_accuracy |-> runAnalysis.detectionAccuracy,
        steps |-> runAnalysis.steps,
        input_tokens |-> runAnalysis.inputTokens,
        output_tokens |-> runAnalysis.outputTokens,
        reasoning_score |-> runAnalysis.reasoningScore,
        agent_name |-> StickyName(st, id, "agent_name", runAnalysis.agentName),
        application_name |->
            StickyName(st, id, "application_name", runAnalysis.applicationName)]

\* which upsert of a scan the database rejects (0: none)
ScanFaults == {0, 1, 2}

\* the loop over the entries: the table, the number of random draws and the
\* imported runs after it, and the run whose upsert rejected (<<>>: none).
\* failAt counts down to the upsert that rejects.
RECURSIVE ScanLoop(_, _, _, _, _, _, _)
ScanLoop(st, fsys, entries, r, t, failAt, importedRuns) ==
    IF entries = <<>>
    THEN [store |-> st, rnd |-> r, importedRuns |-> importedRuns, threw |-> <<>>]
    ELSE LET name == Head(entries)
             drawn == IF HashIsRandom(fsys, name) THEN r + 1 ELSE r
         IN IF ~MatchesRunId(name)
            THEN ScanLoop(st, fsys, Tail(entries), r, t, failAt, importedRuns)
            ELSE IF failAt = 1
            THEN [store |-> st, rnd |-> drawn, importedRuns |-> importedRuns,
                  threw |-> name]
            ELSE ScanLoop(upsertRun(st, ScanRunData(st, fsys, name, r), t), fsys,
                          Tail(entries), drawn, t,
                          IF failAt > 1 THEN failAt - 1 ELSE 0,
                          Append(importedRuns, name))

\* the answer names the run at which the scan threw and the runs it reports
ScanRuns ==
    \E failAt \in ScanFaults :
        /\ Step
        /\ UNCHANGED <<fs, now, dbUp, probe, uploads>>
        /\ IF ~dbUp /\ \E id \in DOMAIN fs : MatchesRunId(id)
           THEN /\ last' = Answer("scan",
                                  Head(SelectSeq(NamesOf(DOMAIN fs), MatchesRunId)),
                                  500, <<>>)
                /\ UNCHANGED <<store, rnd>>
           ELSE LET done == ScanLoop(store, fs, NamesOf(DOMAIN fs), rnd, now, failAt, <<>>)
                IN /\ store' = done.store
                   /\ rnd' = done.rnd
                   /\ last' = IF done.threw = <<>>
                              THEN Answer("scan", <<>>, 200, done.importedRuns)
                              ELSE Answer("scan", done.threw, 500, <<>>)

(***************************************************************************)
(* Uploads.  multer stores the file (diskStorage) before the handler runs. *)
(***************************************************************************)
\* the run store after multer stored the file under filename at time t
MulterStore(fsys, id, filename, file, t) ==
    LET made == Mkdir(fsys, id, t)
    IN [made EXCEPT ![id] = WriteEntry(made[id], filename, t, file.size)]

\* the run store after multer stored an uploaded log as log.txt at time t
MulterStoreLog(fsys, id, text, t) ==
    LET made == Mkdir(fsys, id, t)
    IN [made EXCEPT ![id] = WriteLog(made[id], t, text)]

\* fs.renameSync(tempPath, finalPath) at time t
RenameEntry(dir, from, to, t) ==
    [dir EXCEPT !.entries =
                    [i \in 1..Len(dir.entries) |->
                        IF dir.entries[i].name = from
                        THEN [dir.entries[i] EXCEPT !.name = to]
                        ELSE dir.entries[i]],
                !.mtime = t]

(***************************************************************************)
(* POST /api/runs/:runId/log                                               *)
(***************************************************************************)
LogUploadData(st, fsys, id, r, t) ==
    LET existingRun == st[id]
        runAnalysis == analyzeRunData(fsys, id)
    IN Spread(existingRun,
        [modified_at |-> t,
         file_hash |-> calculateRunHash(fsys, id, r),
         has_log_file |-> TRUE,
         status |-> runAnalysis.status,
         duration |-> runAnalysis.duration,
         reasoning_judgement |-> runAnalysis.reasoning_judgement,
         detection_accuracy |-> runAnalysis.detectionAccuracy,
         steps |-> runAnalysis.steps,
         input_tokens |-> runAnalysis.inputTokens,
         output_tokens |-> runAnalysis.outputTokens,
         reasoning_score |-> runAnalysis.reasoningScore,
         agent_name |-> StickyName(st, id, "agent_name", runAnalysis.agentName),
         application_name |->
             StickyName(st, id, "application_name", runAnalysis.applicationName)])

UploadLog ==
    \E id \in RunIds, file \in LogUploads :
        LET stored == IF file.present /\ FileFilter(file)
                      THEN MulterStoreLog(fs, id, file.text, now)
                      ELSE fs
        IN /\ Step
           /\ UNCHANGED <<now, dbUp, probe, uploads>>
           /\ fs' = stored
           /\ IF file.present /\ ~FileFilter(file)
              THEN /\ last' = Answer("log", id, 500, FALSE)
                   /\ UNCHANGED <<store, rnd>>
              ELSE IF ~file.present
              THEN /\ last' = Answer("log", id, 400, FALSE)
                   /\ UNCHANGED <<store, rnd>>
              ELSE IF ~dbUp
              THEN /\ last' = Answer("log", id, 500, FALSE)
                   /\ UNCHANGED <<store, rnd>>
              ELSE IF ~HasRow(store, id)
              THEN /\ last' = Answer("log", id, 404, FALSE)
                   /\ UNCHANGED <<store, rnd>>
              ELSE /\ store' = upsertRun(store, LogUploadData(store, stored, id, rnd, now), now)
                   /\ rnd' = IF HashIsRandom(stored, id) THEN rnd + 1 ELSE rnd
                   /\ last' = Answer("log", id, 200, FALSE)

(***************************************************************************)
(* POST /api/runs/:runId/evaluation                                        *)
(***************************************************************************)
\* the row written after the file was renamed to finalFilename
EvaluationUploadData(st, fsys, id, finalFilename, t) ==
    LET existingRun == st[id]
        currentEvaluationFiles ==
            IF \E i \in 1..Len(existingRun.evaluation_files) :
                   existingRun.evaluation_files[i] = finalFilename
            THEN existingRun.evaluation_files
            ELSE Append(existingRun.evaluation_files, finalFilename)
        updatedData ==
            Spread(existingRun,
                   [modified_at |-> t,
                    evaluation_files |-> currentEvaluationFiles,
                    evaluation_count |-> Len(currentEvaluationFiles)])
    IN IF updatedData.has_log_file /\ updatedData.evaluation_count > 0
       THEN [updatedData EXCEPT !.status = determineRunStatus(updatedData, fsys, id)]
       ELSE updatedData

UploadEvaluation ==
    \E id \in RunIds, file \in EvalUploads :
        /\ Step
        /\ UNCHANGED <<now, dbUp, rnd, probe, uploads>>
        /\ IF file.present /\ ~FileFilter(file)
           THEN /\ last' = Answer("evaluation", id, 500, FALSE)
                /\ UNCHANGED <<fs, store>>
           ELSE IF ~file.present
           THEN /\ last' = Answer("evaluation", id, 400, FALSE)
                /\ UNCHANGED <<fs, store>>
           ELSE LET temp == TempName(now, file)
                    stored == MulterStore(fs, id, temp, file, now)
                    finalFilename == generateUniqueEvaluationFilename(stored, id, EvalBase)
                    moved == [stored EXCEPT ![id] =
                                 RenameEntry(stored[id], temp, finalFilename, now)]
                IN IF ~EndsWith(file.originalname, DotMd)
                   THEN /\ fs' = stored
                        /\ store' = store
                        /\ last' = Answer("evaluation", id, 400, FALSE)
                   ELSE IF ~dbUp
                   THEN /\ fs' = stored
                        /\ store' = store
                        /\ last' = Answer("evaluation", id, 500, FALSE)
                   ELSE IF ~HasRow(store, id)
                   THEN /\ fs' = stored
                        /\ store' = store
                        /\ last' = Answer("evaluation", id, 404, FALSE)
                   ELSE /\ fs' = moved
                        /\ store' = upsertRun(store,
                               EvaluationUploadData(store, moved, id, finalFilename, now), now)
                        /\ last' = Answer("evaluation", id, 200, FALSE)

(***************************************************************************)
(* PUT /api/runs/:runId                                                    *)
(***************************************************************************)
UpdateRun ==
    \E id \in RunIds, updateData \in UpdateBodies :
        /\ Step
        /\ UNCHANGED <<fs, now, dbUp, rnd, probe, uploads>>
        /\ IF ~dbUp
           THEN /\ last' = Answer("update", id, 500, FALSE)
                /\ store' = store
           ELSE IF ~HasRow(store, id)
           THEN /\ last' = Answer("update", id, 404, FALSE)
                /\ store' = store
           ELSE LET updatedRun ==
                        Spread(Spread(store[id], updateData),
                               [id |-> id, modified_at |-> now, last_analyzed_at |-> now])
                IN /\ store' = upsertRun(store, updatedRun, now)
                   /\ last' = Answer("update", id, 200, FALSE)

(***************************************************************************)
(* DELETE /api/runs/:runId and POST /api/runs/delete-batch                 *)
(***************************************************************************)
\* fs.readdirSync(runPath) of a readable directory; log.txt is listed first
ReaddirAll(dir) == (IF dir.log.exists THEN <<LogTxt>> ELSE <<>>) \o EntryNames(dir)

\* for (const file of files) fs.unlinkSync(...): the directory after the loop
\* and whether it ran to its end (unlinkSync throws on a directory)
RECURSIVE UnlinkAll(_, _, _)
UnlinkAll(dir, files, t) ==
    IF files = <<>> THEN [dir |-> dir, ok |-> TRUE]
    ELSE IF Head(files) = LogTxt
    THEN UnlinkAll([dir EXCEPT !.log = NoFile, !.mtime = t], Tail(files), t)
    ELSE IF EntryOf(dir, Head(files)).isFile
    THEN UnlinkAll(RemoveEntry(dir, Head(files), t), Tail(files), t)
    ELSE [dir |-> dir, ok |-> FALSE]

\* the removal that goes on to the row although unlinking threw
RemoveRunFilesQuietly(fsys, id, t) ==
    IF ~CanReaddir(fsys, id) THEN [fs |-> fsys, ok |-> TRUE, deletedFiles |-> <<>>]
    ELSE LET files == ReaddirAll(fsys[id])
             left == UnlinkAll(fsys[id], files, t)
         IN IF left.ok
            THEN [fs |-> [x \in DOMAIN fsys \ {id} |-> fsys[x]], ok |-> TRUE,
                  deletedFiles |-> files]
            ELSE [fs |-> [fsys EXCEPT ![id] = left.dir], ok |-> TRUE,
                  deletedFiles |-> files]

\* readdirSync, the unlinkSync loop and rmdirSync on an existing run
\* directory: the run store afterwards and whether nothing threw
RemoveRunFiles(fsys, id, t) ==
    IF ~CanReaddir(fsys, id) THEN [fs |-> fsys, ok |-> FALSE, deletedFiles |-> <<>>]
    ELSE LET files == ReaddirAll(fsys[id])
             left == UnlinkAll(fsys[id], files, t)
         IN IF left.ok
            THEN [fs |-> [x \in DOMAIN fsys \ {id} |-> fsys[x]], ok |-> TRUE,
                  deletedFiles |-> files]
            ELSE [fs |-> [fsys EXCEPT ![id] = left.dir], ok |-> FALSE,
                  deletedFiles |-> files]

\* a DELETE statement that removes nothing
deleteNothing(st, id) == st

\* the table after deleteRun(runId)
deleteRun(st, id) == [x \in DOMAIN st \ {id} |-> st[x]]

\* filesOnly: the query carries a filesOnly parameter; rejects: the DELETE
\* statement fails.  The answer carries filesOnly.
DeleteRun ==
    \E id \in RunIds, filesOnly \in BOOLEAN, rejects \in BOOLEAN :
        /\ Step
        /\ UNCHANGED <<now, rnd, dbUp, probe, uploads>>
        /\ IF ~dbUp
           THEN /\ last' = Answer("delete", id, 500, filesOnly)
                /\ UNCHANGED <<fs, store>>
           ELSE IF ~HasRow(store, id)
           THEN /\ last' = Answer("delete", id, 404, filesOnly)
                /\ UNCHANGED <<fs, store>>
           ELSE LET removed == IF ExistsSync(fs, id) THEN RemoveRunFiles(fs, id, now)
                               ELSE [fs |-> fs, ok |-> TRUE, deletedFiles |-> <<>>]
                IN /\ fs' = removed.fs
                   /\ IF ~removed.ok
                      THEN /\ store' = store
                           /\ last' = Answer("delete", id, 500, filesOnly)
                      ELSE IF filesOnly
                      THEN /\ store' = store
                           /\ last' = Answer("delete", id, 200, filesOnly)
                      ELSE IF rejects
                      THEN /\ store' = store
                           /\ last' = Answer("delete", id, 500, filesOnly)
                      ELSE /\ store' = deleteRun(store, id)
                           /\ last' = Answer("delete", id, 200, filesOnly)

\* request bodies of POST /api/runs/delete-batch
DeleteBodies ==
    {[runIds |-> <<V1>>, deleteFiles |-> TRUE],
     [runIds |-> <<BadId, V1>>, deleteFiles |-> TRUE],
     [runIds |-> <<V2, V1>>, deleteFiles |-> TRUE],
     [runIds |-> <<V2, V1>>, deleteFiles |-> FALSE],
     [runIds |-> <<>>, deleteFiles |-> TRUE]}

\* which DELETE statement of a batch the database rejects (0: none)
BatchFaults == {0, 1}

NoDeleted == [successful |-> <<>>, failed |-> <<>>, totalDeleted |-> 0, totalFailed |-> 0]

\* what the catch of the loop body does
BatchFailed(results, runId, message) ==
    [results EXCEPT !.failed = Append(@, [runId |-> runId, error |-> message]),
                    !.totalFailed = @ + 1]

\* one pass of the loop body: the table, the run store and the results after
\* it, and whether a DELETE statement was issued
BatchItem(st, fsys, results, runId, t, up, deleteFiles, failAt) ==
    IF ~up
    THEN [store |-> st, fs |-> fsys, issued |-> FALSE,
          results |-> BatchFailed(results, runId, "database error")]
    ELSE IF ~HasRow(st, runId)
    THEN [store |-> st, fs |-> fsys, issued |-> FALSE,
          results |-> [results EXCEPT !.failed =
                          Append(@, [runId |-> runId,
                                     error |-> "Run not found in database"])]]
    ELSE LET removed == IF deleteFiles /\ ExistsSync(fsys, runId)
                        THEN RemoveRunFiles(fsys, runId, t)
                        ELSE [fs |-> fsys, ok |-> TRUE, deletedFiles |-> <<>>]
         IN IF ~removed.ok
            THEN [store |-> st, fs |-> removed.fs, issued |-> FALSE,
                  results |-> BatchFailed(results, runId, "file error")]
            ELSE IF failAt = 1
            THEN [store |-> st, fs |-> removed.fs, issued |-> TRUE,
                  results |-> BatchFailed(results, runId, "database error")]
            ELSE [store |-> deleteRun(st, runId), fs |-> removed.fs, issued |-> TRUE,
                  results |-> [results EXCEPT
                      !.successful = Append(@, [runId |-> runId,
                                                deletedFiles |-> Len(removed.deletedFiles)]),
                      !.totalDeleted = @ + 1]]

\* a loop that gives up at the first run that is not deleted
RECURSIVE BatchLoopAborting(_, _, _, _, _, _, _, _)
BatchLoopAborting(st, fsys, results, runIds, t, up, deleteFiles, failAt) ==
    IF runIds = <<>> THEN [store |-> st, fs |-> fsys, results |-> results]
    ELSE LET item == BatchItem(st, fsys, results, Head(runIds), t, up, deleteFiles, failAt)
         IN IF Len(item.results.failed) > Len(results.failed)
            THEN [store |-> item.store, fs |-> item.fs, results |-> item.results]
            ELSE BatchLoopAborting(item.store, item.fs, item.results, Tail(runIds), t, up,
                                   deleteFiles,
                                   IF item.issued /\ failAt > 0 THEN failAt - 1 ELSE failAt)

\* for (const runId of runIds) { try { ... } catch (error) { ... } }
RECURSIVE BatchLoop(_, _, _, _, _, _, _, _)
BatchLoop(st, fsys, results, runIds, t, up, deleteFiles, failAt) ==
    IF runIds = <<>> THEN [store |-> st, fs |-> fsys, results |-> results]
    ELSE LET item == BatchItem(st, fsys, results, Head(runIds), t, up, deleteFiles, failAt)
         IN BatchLoop(item.store, item.fs, item.results, Tail(runIds), t, up, deleteFiles,
                      IF item.issued /\ failAt > 0 THEN failAt - 1 ELSE failAt)

\* the answer carries deleteFiles and the results
DeleteBatch ==
    \E body \in DeleteBodies, failAt \in BatchFaults :
        /\ Step
        /\ UNCHANGED <<now, rnd, dbUp, probe, uploads>>
        /\ IF Len(body.runIds) = 0
           THEN /\ last' = Answer("deleteBatch", <<>>, 400, FALSE)
                /\ UNCHANGED <<fs, store>>
           ELSE LET done == BatchLoop(store, fs, NoDeleted, body.runIds, now, dbUp,
                                      body.deleteFiles, failAt)
                IN /\ store' = done.store
                   /\ fs' = done.fs
                   /\ last' = Answer("deleteBatch", body.runIds, 200,
                                     [deleteFiles |-> body.deleteFiles,
                                      results |-> done.results])

(***************************************************************************)
(* POST /api/runs/bulk-reanalyze                                           *)
(***************************************************************************)
\* request bodies: an explicit list of run ids, or reanalyzeAll
BulkBodies ==
    {[runIds |-> <<V1>>, reanalyzeAll |-> FALSE],
     [runIds |-> <<BadId, V1>>, reanalyzeAll |-> FALSE],
     [runIds |-> <<>>, reanalyzeAll |-> FALSE],
     [runIds |-> <<>>, reanalyzeAll |-> TRUE]}

\* getAllRuns().map(run => run.id): the ids of the rows, newest created_at first
RECURSIVE getAllRunIds(_)
getAllRunIds(st) ==
    IF DOMAIN st = {} THEN <<>>
    ELSE LET newest == CHOOSE x \in DOMAIN st :
                           \A y \in DOMAIN st : st[y].created_at <= st[x].created_at
         IN <<newest>> \o getAllRunIds([y \in DOMAIN st \ {newest} |-> st[y]])

\* await analyzeRun(runId, runPath): server.js defines and imports no
\* analyzeRun, so evaluating the call throws a ReferenceError
analyzeRun(fsys, id) ==
    [threw |-> TRUE, message |-> "analyzeRun is not defined", result |-> FALSE]

NoResults ==
    [successful |-> <<>>, failed |-> <<>>, totalProcessed |-> 0,
     successCount |-> 0, failedCount |-> 0]

\* one pass of the loop body for runId on the results so far
BulkItem(results, fsys, runId) ==
    IF ~ExistsSync(fsys, runId)
    THEN [results EXCEPT
             !.failed = Append(@, [runId |-> runId, error |-> "Run directory not found"]),
             !.failedCount = @ + 1]
    ELSE LET analysisResult == analyzeRun(fsys, runId)
         IN IF analysisResult.threw
            THEN [results EXCEPT
                     !.failed = Append(@, [runId |-> runId,
                                           error |-> analysisResult.message]),
                     !.failedCount = @ + 1]
            ELSE IF analysisResult.result
            THEN [results EXCEPT !.successful = Append(@, runId),
                                 !.successCount = @ + 1]
            ELSE [results EXCEPT
                     !.failed = Append(@, [runId |-> runId,
                                           error |-> "Analysis returned no result"]),
                     !.failedCount = @ + 1]

\* a loop that gives up at the first run whose directory is missing
RECURSIVE BulkLoopAborting(_, _, _)
BulkLoopAborting(results, fsys, targetRunIds) ==
    IF targetRunIds = <<>> THEN results
    ELSE IF ~ExistsSync(fsys, Head(targetRunIds))
    THEN BulkItem(results, fsys, Head(targetRunIds))
    ELSE BulkLoopAborting(BulkItem(results, fsys, Head(targetRunIds)), fsys,
                          Tail(targetRunIds))

\* for (const runId of targetRunIds) { try { ... } catch (error) { ... } }
RECURSIVE BulkLoop(_, _, _)
BulkLoop(results, fsys, targetRunIds) ==
    IF targetRunIds = <<>> THEN results
    ELSE BulkLoop(BulkItem(results, fsys, Head(targetRunIds)), fsys, Tail(targetRunIds))

BulkReanalyze ==
    \E body \in BulkBodies :
        /\ Step
        /\ UNCHANGED <<fs, store, now, rnd, dbUp, probe, uploads>>
        /\ IF body.reanalyzeAll /\ ~dbUp
           THEN last' = Answer("bulk", <<>>, 500, FALSE)
           ELSE IF ~body.reanalyzeAll /\ Len(body.runIds) = 0
           THEN last' = Answer("bulk", <<>>, 400, FALSE)
           ELSE LET targetRunIds == IF body.reanalyzeAll THEN getAllRunIds(store)
                                    ELSE body.runIds
                    results == BulkLoop([NoResults EXCEPT
                                            !.totalProcessed = Len(targetRunIds)],
                                        fs, targetRunIds)
                IN last' = Answer("bulk", targetRunIds, 200, results)

(***************************************************************************)
(* RunDatabase.needsReanalysis, called for a run id and its directory.     *)
(***************************************************************************)
NeedsReanalysis ==
    \E id \in RunIds :
        /\ Step
        /\ UNCHANGED <<fs, store, now, dbUp, probe, uploads>>
        /\ rnd' = IF dbUp /\ HasRow(store, id) /\ HashIsRandom(fs, id)
                  THEN rnd + 1 ELSE rnd
        /\ last' = Answer("needsReanalysis", id, 0,
                          needsReanalysis(store, fs, id, rnd, dbUp))

(***************************************************************************)
(* The environment: time passes, the diagnosis agent and the evaluators    *)
(* write into the run store, permissions change, the database fails.       *)
(***************************************************************************)
EmptyMap == [x \in {} |-> x]

Tick ==
    /\ Step
    /\ now' = now + 1
    /\ UNCHANGED <<fs, store, rnd, dbUp, last, probe, uploads>>

DatabaseFlips ==
    /\ Step
    /\ dbUp' = ~dbUp
    /\ last' = Answer("database", <<>>, 0, FALSE)
    /\ UNCHANGED <<fs, store, now, rnd, probe, uploads>>

SessionWritesLog ==
    \E id \in SessionIds, text \in LogTexts :
        /\ Step
        /\ fs' = MulterStoreLog(fs, id, text, now)
        /\ last' = Answer("session", id, 0, FALSE)
        /\ UNCHANGED <<store, now, rnd, dbUp, probe, uploads>>

HandWrittenSizes == {3, 30}

EvaluatorWrites ==
    \E id \in DOMAIN fs, name \in HandWrittenNames, size \in HandWrittenSizes :
        /\ Step
        /\ fs' = [fs EXCEPT ![id] = WriteEntry(fs[id], name, now, size)]
        /\ last' = Answer("evaluator", id, 0, FALSE)
        /\ UNCHANGED <<store, now, rnd, dbUp, probe, uploads>>

EvaluatorRemoves ==
    \E id \in DOMAIN fs, name \in HandWrittenNames :
        /\ EntryExists(fs, id, name)
        /\ Step
        /\ fs' = [fs EXCEPT ![id] = RemoveEntry(fs[id], name, now)]
        /\ last' = Answer("evaluator", id, 0, FALSE)
        /\ UNCHANGED <<store, now, rnd, dbUp, probe, uploads>>

PermissionFlips ==
    \E id \in DOMAIN fs :
        /\ Step
        /\ fs' = [fs EXCEPT ![id].readable = ~fs[id].readable]
        /\ last' = Answer("chmod", id, 0, FALSE)
        /\ UNCHANGED <<store, now, rnd, dbUp, probe, uploads>>

(***************************************************************************)
(* The server starts on a run store that the agent may have filled, with   *)
(* an empty table.                                                         *)
(***************************************************************************)
OneRun(id, dir) == [x \in {id} |-> dir]

InitialRunStores ==
    {EmptyMap,
     OneRun(V1, [NewDir(0) EXCEPT !.log = LogFile(0, GoodLog),
                                  !.entries = <<Entry(AMd, 0, 3, TRUE)>>]),
     OneRun(V1, [NewDir(0) EXCEPT !.log = LogFile(0, GoodLog), !.readable = FALSE]),
     [x \in {V1, V2} |->
         IF x = V1
         THEN [NewDir(0) EXCEPT !.log = LogFile(0, GoodLog),
                                !.entries = <<Entry(AMd, 0, 3, TRUE)>>]
         ELSE [NewDir(0) EXCEPT !.log = LogFile(0, MidLog),
                                !.entries = <<Entry(SubDir, 0, 0, FALSE)>>]]}

NoProbe == [reasoningScore |-> 0, duration |-> 0, status |-> "none"]

\* no evaluation upload is in progress
NoUploads == <<>>

Init ==
    /\ fs \in InitialRunStores
    /\ store = EmptyMap
    /\ now = 1
    /\ rnd = 0
    /\ dbUp = TRUE
    /\ last = NoAnswer
    /\ steps = 0
    /\ probe = NoProbe
    /\ uploads = NoUploads

Next ==
    \/ CreateRun
    \/ Reanalyze
    \/ ScanRuns
    \/ UploadLog
    \/ UploadEvaluation
    \/ UpdateRun
    \/ NeedsReanalysis
    \/ BulkReanalyze
    \/ DeleteRun
    \/ DeleteBatch
    \/ Tick
    \/ DatabaseFlips
    \/ SessionWritesLog
    \/ EvaluatorWrites
    \/ EvaluatorRemoves
    \/ PermissionFlips

Spec == Init /\ [][Next]_vars

(***************************************************************************)
(* The status classifier on its own: every log and every pair of metrics.  *)
(***************************************************************************)
ProbeScores == {0, 4, 5, 6, 7, 8, 10}
ProbeDurations == {0, 1, 100, 599, 600, 1000}

ProbeLog(markers) == [size |-> 10, markers |-> markers, block |-> NoBlock]

InitClassifier ==
    /\ fs \in {EmptyMap, OneRun(V1, NewDir(0))}
              \cup {OneRun(V1, [NewDir(0) EXCEPT !.log = LogFile(0, ProbeLog(m))]) :
                       m \in SUBSET Markers}
    /\ probe \in [reasoningScore : ProbeScores, duration : ProbeDurations,
                  status : {"none"}]
    /\ store = EmptyMap
    /\ now = 1
    /\ rnd = 0
    /\ dbUp = TRUE
    /\ last = NoAnswer
    /\ steps = 0
    /\ uploads = NoUploads

Classify ==
    /\ probe.status = "none"
    /\ probe' = [probe EXCEPT !.status = determineRunStatus(probe, fs, V1)]
    /\ UNCHANGED <<fs, store, now, rnd, dbUp, last, steps, uploads>>

SpecClassifier == InitClassifier /\ [][Classify]_vars

(***************************************************************************)
(* upsertRun on its own: every old table and every runData of the sets     *)
(* below.                                                                  *)
(***************************************************************************)
\* the columns of the table runs
Columns ==
    {"id", "created_at", "modified_at", "file_hash", "status", "duration",
     "reasoning_judgement", "detection_accuracy", "steps", "input_tokens",
     "output_tokens", "reasoning_score", "agent_name", "application_name",
     "has_log_file", "evaluation_files", "evaluation_count", "last_analyzed_at"}

\* runData that carries every column a caller sets
FullRunData(id, status, agent, files) ==
    [id |-> id, created_at |-> 0, modified_at |-> 1,
     file_hash |-> [random |-> FALSE, text |-> <<>>],
     status |-> status, duration |-> 100, reasoning_judgement |-> "sound",
     detection_accuracy |-> "Correct", steps |-> 20, input_tokens |-> 7,
     output_tokens |-> 4, reasoning_score |-> 9,
     agent_name |-> agent, application_name |-> "shop",
     has_log_file |-> TRUE, evaluation_files |-> files,
     evaluation_count |-> Len(files)]

\* runData that carries the NOT NULL columns only
SparseRunData(id) ==
    [id |-> id, created_at |-> 0, modified_at |-> 1,
     file_hash |-> [random |-> FALSE, text |-> <<>>], status |-> "unknown"]

UpsertInputs ==
    {FullRunData(id, status, agent, files) :
        id \in {V1, V2}, status \in {"success", "failed"},
        agent \in {"beta", "unknown", ""}, files \in {<<>>, <<AMd>>}}
    \cup {SparseRunData(V1)}

\* the tables before the upsert: empty, with a row of the id, with another row
OldTables ==
    {EmptyMap,
     upsertRun(EmptyMap, FullRunData(V1, "partial", "alpha", <<AMd, AMd>>), 0),
     upsertRun(EmptyMap, SparseRunData(V1), 0),
     upsertRun(EmptyMap, FullRunData(V2, "partial", "alpha", <<>>), 0),
     upsertRun(upsertRun(EmptyMap, FullRunData(V2, "partial", "alpha", <<>>), 0),
               FullRunData(V1, "partial", "alpha", <<AMd>>), 0)}

InitUpsert ==
    /\ fs = EmptyMap
    /\ store \in OldTables
    /\ probe \in UpsertInputs
    /\ now = 1
    /\ rnd = 0
    /\ dbUp = TRUE
    /\ last = NoAnswer
    /\ steps = 0
    /\ uploads = NoUploads

ApplyUpsert ==
    /\ last.op = "start"
    /\ store' = upsertRun(store, probe, now)
    /\ last' = Answer("upsert", probe.id, 0, FALSE)
    /\ UNCHANGED <<fs, now, rnd, dbUp, steps, probe, uploads>>

SpecUpsert == InitUpsert /\ [][ApplyUpsert]_vars

(***************************************************************************)
(* POST /api/runs/:runId/evaluation, two requests at a time.  The handler  *)
(* gives way at its two awaits: await runDB.getRun(runId) and              *)
(* await runDB.upsertRun(updatedData).  Between them it runs on the one    *)
(* thread of the event loop without interruption.                          *)
(***************************************************************************)
Uploaders == {1, 2}

\* the file of each request
UploadOf(p) ==
    IF p = 1 THEN Upload(<<"e">> \o DotMd, "text/markdown", 5)
    ELSE Upload(<<"f">> \o DotMd, "text/markdown", 5)

Idle ==
    [pc |-> "idle", code |-> 0, temp |-> <<>>, existingRun |-> EmptyMap,
     finalFilename |-> <<>>, updatedData |-> EmptyMap, issuedAt |-> 0]

\* the run stores that two evaluators upload to, and the table after a scan
ConcurrentRunStores ==
    (InitialRunStores \ {EmptyMap})
    \cup {OneRun(V1, [NewDir(0) EXCEPT !.log = LogFile(0, text)]) : text \in LogTexts}

InitConcurrent ==
    /\ fs \in ConcurrentRunStores
    /\ store = ScanLoop(EmptyMap, fs, NamesOf(DOMAIN fs), 0, 0, 0, <<>>).store
    /\ now = 1
    /\ rnd = 0
    /\ dbUp = TRUE
    /\ last = NoAnswer
    /\ steps = 0
    /\ probe = NoProbe
    /\ uploads = [p \in Uploaders |-> Idle]

\* the request arrives: multer stores the file, the handler calls getRun
Arrive(p) ==
    /\ uploads[p].pc = "idle"
    /\ fs' = MulterStore(fs, V1, TempName(now, UploadOf(p)), UploadOf(p), now)
    /\ uploads' = [uploads EXCEPT ![p].pc = "getRun",
                                  ![p].temp = TempName(now, UploadOf(p))]
    /\ UNCHANGED <<store, now, rnd, dbUp, last, steps, probe>>

\* the database runs the SELECT of getRun
GetRunReturns(p) ==
    /\ uploads[p].pc = "getRun"
    /\ uploads' = IF HasRow(store, V1)
                  THEN [uploads EXCEPT ![p].pc = "got", ![p].existingRun = store[V1]]
                  ELSE [uploads EXCEPT ![p].pc = "done", ![p].code = 404]
    /\ UNCHANGED <<fs, store, now, rnd, dbUp, last, steps, probe>>

\* the handler goes on after await getRun: it names and moves the file,
\* builds updatedData from the row it read and calls upsertRun
Continue(p) ==
    /\ uploads[p].pc = "got"
    /\ LET finalFilename == generateUniqueEvaluationFilename(fs, V1, EvalBase)
           moved == [fs EXCEPT ![V1] =
                        RenameEntry(fs[V1], uploads[p].temp, finalFilename, now)]
       IN IF ~EntryExists(fs, V1, uploads[p].temp)
          THEN /\ uploads' = [uploads EXCEPT ![p].pc = "done", ![p].code = 500]
               /\ fs' = fs
          ELSE /\ fs' = moved
               /\ uploads' =
                      [uploads EXCEPT
                          ![p].pc = "upsert",
                          ![p].finalFilename = finalFilename,
                          ![p].issuedAt = now,
                          ![p].updatedData =
                              EvaluationUploadData(OneRun(V1, uploads[p].existingRun),
                                                   moved, V1, finalFilename, now)]
    /\ UNCHANGED <<store, now, rnd, dbUp, last, steps, probe>>

\* the database runs the INSERT OR REPLACE of upsertRun; the handler answers
UpsertRuns(p) ==
    /\ uploads[p].pc = "upsert"
    /\ store' = upsertRun(store, uploads[p].updatedData, uploads[p].issuedAt)
    /\ uploads' = [uploads EXCEPT ![p].pc = "done", ![p].code = 200]
    /\ UNCHANGED <<fs, now, rnd, dbUp, last, steps, probe>>

NextConcurrent ==
    \E p \in Uploaders :
        \/ Arrive(p)
        \/ GetRunReturns(p)
        \/ Continue(p)
        \/ UpsertRuns(p)

SpecConcurrent == InitConcurrent /\ [][NextConcurrent]_vars

(***************************************************************************)
(* POST /api/runs/:runId/reanalyze and one iteration of POST /api/runs/scan *)
(* step by step, while the agent and the evaluators write into the run      *)
(* directory.  Both handlers read the directory (statSync, existsSync,      *)
(* discoverEvaluationFiles, analyzeRunData), give way at                    *)
(* await runDB.getRun, then call calculateRunHash and give way at           *)
(* await runDB.upsertRun.  uploads holds the request in progress.           *)
(***************************************************************************)
AnalysisKinds == {"reanalyze", "scan"}

IdleAnalysis(kind) ==
    [kind |-> kind, pc |-> "idle", code |-> 0, seen |-> NewDir(0),
     existingRun |-> EmptyMap, runData |-> EmptyMap, issuedAt |-> 0]

\* the run directories that a session left behind
SessionDirs ==
    {[NewDir(0) EXCEPT !.log = LogFile(0, text), !.entries = entries] :
        text \in LogTexts, entries \in {<<>>, <<Entry(AMd, 0, 3, TRUE)>>}}

\* the table of a server that scanned the run store, or never did
TablesOf(fsys) ==
    {EmptyMap, ScanLoop(EmptyMap, fsys, NamesOf(DOMAIN fsys), 0, 0, 0, <<>>).store}

InitAnalysis ==
    /\ fs \in {OneRun(V1, dir) : dir \in SessionDirs}
    /\ store \in TablesOf(fs)
    /\ now = 1
    /\ rnd = 0
    /\ dbUp = TRUE
    /\ last = NoAnswer
    /\ steps = 0
    /\ probe = NoProbe
    /\ uploads \in {IdleAnalysis(kind) : kind \in AnalysisKinds}

\* the handler up to await runDB.getRun: what it read of the directory.
\* pc = "listed": a scan that listed runsDir earlier and now comes to the run;
\* fs.statSync throws when the directory is gone.
AnalysisStarts ==
    /\ uploads.pc \in {"idle", "listed"}
    /\ uploads' =
           IF ExistsSync(fs, V1)
           THEN [uploads EXCEPT !.pc = "getRun", !.seen = fs[V1]]
           ELSE [uploads EXCEPT !.pc = "done",
                                !.code = IF uploads.kind = "reanalyze" THEN 404
                                         ELSE IF uploads.pc = "listed" THEN 500
                                         ELSE 200]
    /\ UNCHANGED <<fs, store, now, rnd, dbUp, last, steps, probe>>

\* the database runs the SELECT of getRun
AnalysisGetRunReturns ==
    /\ uploads.pc = "getRun"
    /\ uploads' = [uploads EXCEPT
                      !.pc = "got",
                      !.existingRun = IF HasRow(store, V1)
                                      THEN OneRun(V1, store[V1]) ELSE EmptyMap]
    /\ UNCHANGED <<fs, store, now, rnd, dbUp, last, steps, probe>>

\* the handler from await getRun to await upsertRun: runData is built from
\* what was read before the await, but file_hash from the directory as it is
AnalysisContinues ==
    /\ uploads.pc = "got"
    /\ LET read == OneRun(V1, uploads.seen)
           built == IF uploads.kind = "reanalyze"
                    THEN ReanalyzeRunData(uploads.existingRun, read, V1, rnd)
                    ELSE ScanRunData(uploads.existingRun, read, V1, rnd)
       IN uploads' = [uploads EXCEPT
                         !.pc = "upsert",
                         !.issuedAt = now,
                         !.runData = [built EXCEPT
                                         !.file_hash = calculateRunHash(fs, V1, rnd)]]
    /\ rnd' = IF HashIsRandom(fs, V1) THEN rnd + 1 ELSE rnd
    /\ UNCHANGED <<fs, store, now, dbUp, last, steps, probe>>

\* the database runs the INSERT OR REPLACE of upsertRun; the handler answers
AnalysisUpsertRuns ==
    /\ uploads.pc = "upsert"
    /\ store' = upsertRun(store, uploads.runData, uploads.issuedAt)
    /\ uploads' = [uploads EXCEPT !.pc = "done", !.code = 200]
    /\ UNCHANGED <<fs, now, rnd, dbUp, last, steps, probe>>

\* the agent rewrites log.txt, later than every write before
LaterLogWrite ==
    \E text \in LogTexts :
        /\ Step
        /\ ExistsSync(fs, V1)
        /\ now' = now + 1
        /\ fs' = [fs EXCEPT ![V1] = WriteLog(fs[V1], now + 1, text)]
        /\ last' = Answer("session", V1, 0, FALSE)
        /\ UNCHANGED <<store, rnd, dbUp, probe, uploads>>

\* an evaluator writes a document, later than every write before
LaterDocumentWrite ==
    \E name \in HandWrittenNames, size \in HandWrittenSizes :
        /\ Step
        /\ ExistsSync(fs, V1)
        /\ now' = now + 1
        /\ fs' = [fs EXCEPT ![V1] = WriteEntry(fs[V1], name, now + 1, size)]
        /\ last' = Answer("evaluator", V1, 0, FALSE)
        /\ UNCHANGED <<store, rnd, dbUp, probe, uploads>>

NextAnalysis ==
    \/ AnalysisStarts
    \/ AnalysisGetRunReturns
    \/ AnalysisContinues
    \/ AnalysisUpsertRuns
    \/ LaterLogWrite
    \/ LaterDocumentWrite

SpecAnalysis == InitAnalysis /\ [][NextAnalysis]_vars

(***************************************************************************)
(* DELETE /api/runs/:runId step by step, next to a reanalysis or a scan of *)
(* the same run.  The handler gives way at await runDB.getRun, removes the *)
(* files and gives way at await runDB.deleteRun.  The fields delPc and     *)
(* delCode of uploads hold the position and the answer of the delete.      *)
(***************************************************************************)
InitDeleteRace ==
    /\ fs \in {OneRun(V1, dir) : dir \in SessionDirs}
    /\ store = ScanLoop(EmptyMap, fs, NamesOf(DOMAIN fs), 0, 0, 0, <<>>).store
    /\ now = 1
    /\ rnd = 0
    /\ dbUp = TRUE
    /\ last = NoAnswer
    /\ steps = 0
    /\ probe = NoProbe
    /\ uploads \in {Spread(IdleAnalysis(kind), [delPc |-> "idle", delCode |-> 0]) :
                       kind \in AnalysisKinds}

\* fs.readdirSync(runsDir) of a scan; the scan then works on other entries
ScanLists ==
    /\ uploads.pc = "idle"
    /\ uploads.kind = "scan"
    /\ ExistsSync(fs, V1)
    /\ uploads' = [uploads EXCEPT !.pc = "listed"]
    /\ UNCHANGED <<fs, store, now, rnd, dbUp, last, steps, probe>>

\* the delete arrives after the other request has started
DeleteStarts ==
    /\ uploads.delPc = "idle"
    /\ uploads.pc # "idle"
    /\ uploads' = [uploads EXCEPT !.delPc = "getRun"]
    /\ UNCHANGED <<fs, store, now, rnd, dbUp, last, steps, probe>>

\* the database runs the SELECT of getRun
DeleteGetRunReturns ==
    /\ uploads.delPc = "getRun"
    /\ uploads' = IF HasRow(store, V1)
                  THEN [uploads EXCEPT !.delPc = "got"]
                  ELSE [uploads EXCEPT !.delPc = "done", !.delCode = 404]
    /\ UNCHANGED <<fs, store, now, rnd, dbUp, last, steps, probe>>

\* the handler from await getRun to await deleteRun: the files are removed
DeleteRemovesFiles ==
    /\ uploads.delPc = "got"
    /\ LET removed == IF ExistsSync(fs, V1) THEN RemoveRunFiles(fs, V1, now)
                      ELSE [fs |-> fs, ok |-> TRUE, deletedFiles |-> <<>>]
       IN /\ fs' = removed.fs
          /\ uploads' = IF removed.ok
                        THEN [uploads EXCEPT !.delPc = "deleteRun"]
                        ELSE [uploads EXCEPT !.delPc = "done", !.delCode = 500]
    /\ UNCHANGED <<store, now, rnd, dbUp, last, steps, probe>>

\* the database runs the DELETE of deleteRun; the handler answers
DeleteRunRuns ==
    /\ uploads.delPc = "deleteRun"
    /\ store' = deleteRun(store, V1)
    /\ uploads' = [uploads EXCEPT !.delPc = "done", !.delCode = 200]
    /\ UNCHANGED <<fs, now, rnd, dbUp, last, steps, probe>>

NextDeleteRace ==
    \/ ScanLists
    \/ AnalysisStarts
    \/ AnalysisGetRunReturns
    \/ AnalysisContinues
    \/ AnalysisUpsertRuns
    \/ DeleteStarts
    \/ DeleteGetRunReturns
    \/ DeleteRemovesFiles
    \/ DeleteRunRuns

SpecDeleteRace == InitDeleteRace /\ [][NextDeleteRace]_vars

(***************************************************************************)
(* The metric extractor on the text of a log.  The text of a results block *)
(* is the sequence of its 'key': value entries, as Python prints a dict;   *)
(* a value is a run of digits, a quoted string or the bare word None.      *)
(* An evaluation document carries a score ("Score: N/10") or none.         *)
(***************************************************************************)
BlockKeys ==
    <<"Detection_Accuracy", "TTD", "steps", "in_tokens", "out_tokens",
      "reasoning_judgement", "reasoning_score">>

\* the same entries with the judgement printed last
BlockKeysJudgementLast ==
    <<"Detection_Accuracy", "TTD", "steps", "in_tokens", "out_tokens",
      "reasoning_score", "reasoning_judgement">>

KeyOrders == {BlockKeys, BlockKeysJudgementLast}

StringKeys == {"Detection_Accuracy", "reasoning_judgement"}

\* what a session prints for each key
GivenValues ==
    [Detection_Accuracy |-> "Correct", TTD |-> 100, steps |-> 20, in_tokens |-> 7,
     out_tokens |-> 4, reasoning_judgement |-> "sound", reasoning_score |-> 9]

\* an entry of the block: kind is "digits", "quoted" or "None"
BlockEntry(key, kind) ==
    [key |-> key, kind |-> kind,
     num |-> IF kind = "digits" THEN GivenValues[key] ELSE Undefined,
     str |-> IF kind = "quoted" THEN GivenValues[key] ELSE NullStr]

\* how each key is printed: not at all, with its value, or as None
Printings ==
    [{BlockKeys[i] : i \in 1..Len(BlockKeys)} -> {"absent", "given", "None"}]

\* the entries of a block printed in the given order
RECURSIVE BlockText(_, _)
BlockText(order, printing) ==
    IF order = <<>> THEN <<>>
    ELSE LET key == Head(order)
             rest == BlockText(Tail(order), printing)
         IN IF printing[key] = "absent" THEN rest
            ELSE IF printing[key] = "None" THEN <<BlockEntry(key, "None")>> \o rest
            ELSE IF key \in StringKeys THEN <<BlockEntry(key, "quoted")>> \o rest
            ELSE <<BlockEntry(key, "digits")>> \o rest

\* the index of the first entry with the key (0: none)
IndexOfKey(entries, key) ==
    IF \E i \in 1..Len(entries) : entries[i].key = key
    THEN CHOOSE i \in 1..Len(entries) :
             /\ entries[i].key = key
             /\ \A j \in 1..(i - 1) : entries[j].key # key
    ELSE 0

\* metricsStr.match(/'key':\s*(\d+)/), /'TTD':\s*([\d.]+)/
MatchDigits(entries, key) ==
    LET i == IndexOfKey(entries, key)
    IN IF i # 0 /\ entries[i].kind = "digits" THEN entries[i].num ELSE Undefined

\* metricsStr.match(/'Detection[_ ]Accuracy':\s*'([^']+)'/)
MatchQuoted(entries, key) ==
    LET i == IndexOfKey(entries, key)
    IN IF i # 0 /\ entries[i].kind = "quoted" /\ entries[i].str # ""
       THEN entries[i].str ELSE NullStr

\* metricsStr.match(/'reasoning_judgement':\s*'([\s\S]*?)'(?=,\s*'[^']*':|$)/):
\* metricsStr ends with the closing brace, so the quote that ends the value
\* has to be followed by a comma and another key
MatchJudgement(entries) ==
    LET i == IndexOfKey(entries, "reasoning_judgement")
    IN IF i # 0 /\ entries[i].kind = "quoted" /\ i < Len(entries)
       THEN entries[i].str ELSE NullStr

\* what follows the closing brace of the block in the log
BlockTails == {"end", "heading", "lowercase"}

\* logContent.match(/Results:\s*(\{[\s\S]*?\})\s*(?=\n==|\n[A-Z]|$)/) and the
\* patterns applied to its group
MatchBlock(entries, tail) ==
    IF tail = "lowercase" THEN NoBlock
    ELSE [present |-> TRUE,
          Detection_Accuracy |-> MatchQuoted(entries, "Detection_Accuracy"),
          TTD |-> MatchDigits(entries, "TTD"),
          steps |-> MatchDigits(entries, "steps"),
          in_tokens |-> MatchDigits(entries, "in_tokens"),
          out_tokens |-> MatchDigits(entries, "out_tokens"),
          reasoning_score |-> MatchDigits(entries, "reasoning_score"),
          reasoning_judgement |-> MatchJudgement(entries)]

\* a log with a results block, and the log without one
BlockLog(entries, tail) ==
    [size |-> 10, markers |-> {}, block |-> MatchBlock(entries, tail),
     hasBlock |-> TRUE, entries |-> entries, tail |-> tail]

PlainLog ==
    [size |-> 10, markers |-> {}, block |-> NoBlock,
     hasBlock |-> FALSE, entries |-> <<>>, tail |-> "end"]

ExtractorLogs ==
    {BlockLog(BlockText(order, printing), tail) :
        order \in KeyOrders, printing \in Printings, tail \in BlockTails}
    \cup {PlainLog}

\* an evaluation document with its score (Undefined: it carries none)
Document(name, score) ==
    [name |-> name, mtime |-> 0, size |-> 3, isFile |-> TRUE, score |-> score]

BMd == <<"b">> \o DotMd

DocumentSets ==
    {<<>>,
     <<Document(AMd, Undefined)>>,
     <<Document(AMd, 8)>>,
     <<Document(AMd, 4), Document(BMd, 8)>>}

InitExtractor ==
    /\ fs \in {OneRun(V1, [NewDir(0) EXCEPT !.log = LogFile(0, text),
                                            !.entries = documents]) :
                  text \in ExtractorLogs, documents \in DocumentSets}
    /\ store = EmptyMap
    /\ now = 1
    /\ rnd = 0
    /\ dbUp = TRUE
    /\ last = NoAnswer
    /\ steps = 0
    /\ probe = NoProbe
    /\ uploads = NoUploads

\* analyzeRunData(runPath, runId)
Extract ==
    /\ last.op = "start"
    /\ last' = Answer("analyze", V1, 0, analyzeRunData(fs, V1))
    /\ UNCHANGED <<fs, store, now, rnd, dbUp, steps, probe, uploads>>

SpecExtractor == InitExtractor /\ [][Extract]_vars

(***************************************************************************)
(* GET /api/stats (RunDatabase.getStats).                                  *)
(***************************************************************************)
V3 == <<"2", "0", "2", "5", "0", "7", "1", "6", "-", "b", "1">>

\* SUM(column) over the rows with the given ids
RECURSIVE SumOf(_, _, _)
SumOf(st, column, ids) ==
    IF ids = {} THEN 0
    ELSE LET id == CHOOSE x \in ids : TRUE
         IN st[id][column] + SumOf(st, column, ids \ {id})

\* SELECT COUNT(*) FROM runs WHERE status = "..."
CountStatus(st, status) == Cardinality({id \in DOMAIN st : st[id].status = status})

\* Math.round(avg || 0) of AVG(column) over the given rows: AVG of no row is
\* NULL, Math.round rounds a half upwards
RoundedAvg(st, column, ids) ==
    IF ids = {} THEN 0
    ELSE (2 * SumOf(st, column, ids) + Cardinality(ids)) \div (2 * Cardinality(ids))

\* statistics whose averages run over every row
getStatsOfAllRows(st) ==
    [totalRuns |-> Cardinality(DOMAIN st),
     successRuns |-> CountStatus(st, "success"),
     partialRuns |-> CountStatus(st, "partial"),
     failedRuns |-> CountStatus(st, "failed"),
     avgDuration |-> RoundedAvg(st, "duration", DOMAIN st),
     avgReasoningScore |-> RoundedAvg(st, "reasoning_score", DOMAIN st)]

getStats(st) ==
    [totalRuns |-> Cardinality(DOMAIN st),
     successRuns |-> CountStatus(st, "success"),
     partialRuns |-> CountStatus(st, "partial"),
     failedRuns |-> CountStatus(st, "failed"),
     avgDuration |->
         RoundedAvg(st, "duration", {id \in DOMAIN st : st[id].duration > 0}),
     avgReasoningScore |->
         RoundedAvg(st, "reasoning_score",
                    {id \in DOMAIN st : st[id].reasoning_score > 0})]

\* rows of analysed and of created runs: status, duration, reasoning_score
StatsRow(id, status, measured) ==
    UpsertParams([FullRunData(id, status, "alpha", <<>>) EXCEPT
                     !.duration = measured[1], !.reasoning_score = measured[2]], 0)

Measurements == {<<0, 0>>, <<1, 7>>, <<4, 8>>, <<100, 0>>}

StatsTables ==
    UNION {[ids -> {"success", "partial", "failed", "unknown"} \X Measurements] :
              ids \in SUBSET {V1, V2, V3}}

InitStats ==
    /\ fs = EmptyMap
    /\ store \in {[id \in DOMAIN choice |-> StatsRow(id, choice[id][1], choice[id][2])] :
                     choice \in StatsTables}
    /\ now = 1
    /\ rnd = 0
    /\ dbUp = TRUE
    /\ last = NoAnswer
    /\ steps = 0
    /\ probe = NoProbe
    /\ uploads = NoUploads

\* GET /api/stats; rejects: one of the queries fails
GetStats ==
    \E rejects \in BOOLEAN :
        /\ last.op = "start"
        /\ last' = IF rejects THEN Answer("stats", <<>>, 500, FALSE)
                   ELSE Answer("stats", <<>>, 200, getStats(store))
        /\ UNCHANGED <<fs, store, now, rnd, dbUp, steps, probe, uploads>>

SpecStats == InitStats /\ [][GetStats]_vars

(***************************************************************************)
(* The fingerprint of a run directory whose entries change: log.txt,       *)
(* evaluation documents, README.md and a subdirectory named old.md.        *)
(***************************************************************************)
OldMd == SubDir \o DotMd

\* the entries that discoverEvaluationFiles leaves out though they end in .md
ExcludedEntries == {Entry(ReadmeMd, 0, 3, TRUE), Entry(OldMd, 0, 3, FALSE)}

FingerprintDirs ==
    {[NewDir(0) EXCEPT !.log = LogFile(0, GoodLog), !.entries = entries] :
        entries \in {<<Entry(AMd, 0, 3, TRUE), Entry(ReadmeMd, 0, 3, TRUE)>>,
                     <<Entry(ReadmeMd, 0, 3, TRUE), Entry(OldMd, 0, 3, FALSE)>>,
                     <<Entry(AMd, 0, 3, TRUE), Entry(OldMd, 0, 3, FALSE)>>,
                     <<Entry(OldMd, 0, 3, FALSE), Entry(AMd, 0, 3, TRUE),
                       Entry(ReadmeMd, 0, 3, TRUE)>>}}

InitFingerprint ==
    /\ fs \in {OneRun(V1, dir) : dir \in FingerprintDirs}
    /\ store = EmptyMap
    /\ now = 1
    /\ rnd = 0
    /\ dbUp = TRUE
    /\ last = NoAnswer
    /\ steps = 0
    /\ probe = NoProbe
    /\ uploads = NoUploads

\* README.md is rewritten or the subdirectory gets a new modification time
LaterExcludedWrite ==
    \E e \in ExcludedEntries, size \in HandWrittenSizes :
        /\ Step
        /\ EntryExists(fs, V1, e.name)
        /\ now' = now + 1
        /\ fs' = [fs EXCEPT ![V1] = WriteEntry(fs[V1], e.name, now + 1, size)]
        /\ last' = Answer("excluded", V1, 0, FALSE)
        /\ UNCHANGED <<store, rnd, dbUp, probe, uploads>>

NextFingerprint ==
    \/ LaterLogWrite
    \/ LaterDocumentWrite
    \/ LaterExcludedWrite

SpecFingerprint == InitFingerprint /\ [][NextFingerprint]_vars

(***************************************************************************)
(* The dashboard's safeFetch (part_001).  uploads holds                    *)
(* APP_STATE.pendingRequests and, for every caller, the call it made:      *)
(* where the innermost invocation stands, its retryCount, the number of    *)
(* invocations whose finally block has not run (frames), the number of     *)
(* requests sent, the error caught last and how the call ended.            *)
(***************************************************************************)
\* CONFIG.RETRY.MAX_ATTEMPTS
MAX_ATTEMPTS == 3

Callers == {1, 2}

\* the HTTP statuses a response may carry
ResponseStatuses == {200, 404, 500}

NoCall ==
    [pc |-> "idle", retryCount |-> 0, frames |-> 0, requests |-> 0,
     status |-> 0, error |-> "none", result |-> "none"]

InitFetch ==
    /\ fs = EmptyMap
    /\ store = EmptyMap
    /\ now = 1
    /\ rnd = 0
    /\ dbUp = TRUE
    /\ last = NoAnswer
    /\ steps = 0
    /\ probe = NoProbe
    /\ uploads = [pendingRequests |-> 0, calls |-> [c \in Callers |-> NoCall]]

\* the call of caller c after changes to its record and to pendingRequests
WithCall(c, call, pending) ==
    [uploads EXCEPT !.calls[c] = call, !.pendingRequests = pending]

\* the catch block: a retry is scheduled, or the error is thrown on
Caught(call, name, status) ==
    IF /\ call.retryCount < MAX_ATTEMPTS
       /\ (name = "AbortError" \/ name = "TypeError" \/ (status # 0 /\ status >= 500))
    THEN [call EXCEPT !.pc = "delaying", !.error = name, !.status = status]
    ELSE [call EXCEPT !.pc = "unwinding", !.error = name, !.status = status,
                      !.result = "threw"]

\* safeFetch(endpoint, options): pendingRequests++ and the request is sent
Call(c) ==
    /\ uploads.calls[c].pc = "idle"
    /\ uploads' = WithCall(c, [uploads.calls[c] EXCEPT !.pc = "fetching", !.frames = 1,
                                                       !.requests = 1],
                           uploads.pendingRequests + 1)
    /\ UNCHANGED <<fs, store, now, rnd, dbUp, last, steps, probe>>

\* fetch resolves with a response; clearTimeout(timeoutId)
FetchResponds(c) ==
    \E status \in ResponseStatuses :
        /\ uploads.calls[c].pc = "fetching"
        /\ uploads' = WithCall(c, [uploads.calls[c] EXCEPT
                                      !.pc = IF status >= 200 /\ status <= 299
                                             THEN "reading" ELSE "readingError",
                                      !.status = status],
                               uploads.pendingRequests)
        /\ UNCHANGED <<fs, store, now, rnd, dbUp, last, steps, probe>>

\* fetch rejects with a TypeError: the network failed
FetchRejects(c) ==
    /\ uploads.calls[c].pc = "fetching"
    /\ uploads' = WithCall(c, Caught(uploads.calls[c], "TypeError", 0),
                           uploads.pendingRequests)
    /\ UNCHANGED <<fs, store, now, rnd, dbUp, last, steps, probe>>

\* the timer of 10 s fires before fetch resolved: controller.abort()
TimeoutFires(c) ==
    /\ uploads.calls[c].pc = "fetching"
    /\ uploads' = WithCall(c, Caught(uploads.calls[c], "AbortError", 0),
                           uploads.pendingRequests)
    /\ UNCHANGED <<fs, store, now, rnd, dbUp, last, steps, probe>>

\* await response.json() settles: the data is returned, the text is no JSON
\* (SyntaxError) or the connection broke (TypeError); for a response that is
\* not ok the outcome is ignored and an HttpError with the status is thrown
BodySettles(c) ==
    \E outcome \in {"parsed", "SyntaxError", "TypeError"} :
        /\ uploads.calls[c].pc \in {"reading", "readingError"}
        /\ uploads' =
               WithCall(c,
                        IF uploads.calls[c].pc = "readingError"
                        THEN Caught(uploads.calls[c], "HttpError", uploads.calls[c].status)
                        ELSE IF outcome = "parsed"
                        THEN [uploads.calls[c] EXCEPT !.pc = "unwinding", !.result = "data"]
                        ELSE Caught(uploads.calls[c], outcome, 0),
                        uploads.pendingRequests)
        /\ UNCHANGED <<fs, store, now, rnd, dbUp, last, steps, probe>>

\* the delay is over: return safeFetch(endpoint, options, retryCount + 1)
DelayElapses(c) ==
    /\ uploads.calls[c].pc = "delaying"
    /\ uploads' = WithCall(c, [uploads.calls[c] EXCEPT !.pc = "fetching",
                                                       !.retryCount = @ + 1,
                                                       !.frames = @ + 1,
                                                       !.requests = @ + 1],
                           uploads.pendingRequests + 1)
    /\ UNCHANGED <<fs, store, now, rnd, dbUp, last, steps, probe>>

\* a finally block that runs for the outermost invocation only
UnwindOnce(c) ==
    /\ uploads.calls[c].pc = "unwinding"
    /\ uploads' = WithCall(c, [uploads.calls[c] EXCEPT !.frames = 0, !.pc = "done"],
                           uploads.pendingRequests - 1)
    /\ UNCHANGED <<fs, store, now, rnd, dbUp, last, steps, probe>>

\* the finally block of the innermost invocation that has not left yet
Unwind(c) ==
    /\ uploads.calls[c].pc = "unwinding"
    /\ uploads' = WithCall(c, [uploads.calls[c] EXCEPT
                                  !.frames = @ - 1,
                                  !.pc = IF uploads.calls[c].frames = 1
                                         THEN "done" ELSE "unwinding"],
                           uploads.pendingRequests - 1)
    /\ UNCHANGED <<fs, store, now, rnd, dbUp, last, steps, probe>>

NextFetch ==
    \E c \in Callers :
        \/ Call(c)
        \/ FetchResponds(c)
        \/ FetchRejects(c)
        \/ TimeoutFires(c)
        \/ BodySettles(c)
        \/ DelayElapses(c)
        \/ Unwind(c)

SpecFetch == InitFetch /\ [][NextFetch]_vars

\* timers fire and the code runs on; whether the network answers is open
SpecFetchFair ==
    /\ InitFetch
    /\ [][NextFetch]_vars
    /\ \A c \in Callers : /\ WF_vars(TimeoutFires(c))
                          /\ WF_vars(DelayElapses(c))
                          /\ WF_vars(Unwind(c))

(***************************************************************************)
(* Claims.                                                                 *)
(***************************************************************************)
Statuses == {"success", "partial", "failed", "unknown"}

AutomatedOps == {"scan", "reanalyze", "log", "evaluation"}

\* the label that the decision order of the classifier gives
DecisionOrder(logFileExists, markers, reasoningScore, duration) ==
    IF ~logFileExists THEN "failed"
    ELSE IF markers \cap {"Fatal error", "Terminated"} # {} THEN "failed"
    ELSE IF /\ \/ markers \cap {"root cause", "solution", "resolved"} # {}
               \/ reasoningScore >= 8
            /\ reasoningScore >= 7 THEN "success"
    ELSE IF reasoningScore >= 5 \/ (0 < duration /\ duration < 600) THEN "partial"
    ELSE "failed"

C2_EvaluationUploadStatusIsClassified ==
    (/\ last.op = "evaluation"
     /\ last.code = 200
     /\ store[last.id].has_log_file
     /\ LogExists(fs, last.id))
    => store[last.id].status =
           DecisionOrder(TRUE, fs[last.id].log.text.markers,
                         store[last.id].reasoning_score, store[last.id].duration)

\* C3: no scan, reanalysis, log upload or evaluation upload replaces a stored
\* agent_name or application_name other than "unknown": the row stays and
\* keeps the value.
C3_StickyIdentity ==
    [][last'.op \in AutomatedOps =>
          \A id \in DOMAIN store : \A f \in {"agent_name", "application_name"} :
              store[id][f] # "unknown" =>
                  id \in DOMAIN store' /\ store'[id][f] = store[id][f]]_vars

\* a reanalysis wrote a row whose agent_name was known before
C3_Witness ==
    /\ last.op = "reanalyze"
    /\ last.code = 200
    /\ store[last.id].agent_name = "alpha"
    /\ store[last.id].status # "unknown"

\* C4: every stored row has evaluation_count equal to the number of entries
\* of evaluation_files.
C4_CountMatchesFiles ==
    \A id \in DOMAIN store :
        store[id].evaluation_count = Len(store[id].evaluation_files)

\* C5: every stored row's status is success, partial, failed or unknown.
C5_StatusInDomain == \A id \in DOMAIN store : store[id].status \in Statuses

\* C6: every stored row's id matches the naming convention.
C6_StoredIdsWellFormed == \A id \in DOMAIN store : MatchesRunId(id)

\* the rows agree in every column except last_analyzed_at
SameButAnalyzedAt(a, b) ==
    [a EXCEPT !.last_analyzed_at = 0] = [b EXCEPT !.last_analyzed_at = 0]

\* C7: a second successful reanalysis of a run, with no change of the run
\* store in between, leaves a row equal to the first one's in every column
\* except last_analyzed_at.
C7_ReanalysisIdempotent ==
    [][(/\ last.op = "reanalyze" /\ last.code = 200
        /\ last'.op = "reanalyze" /\ last'.code = 200
        /\ last'.id = last.id)
       => SameButAnalyzedAt(store'[last.id], store[last.id])]_vars

\* C7, amended: the same for a run directory whose listing can be read.
C7_ReanalysisIdempotentWhenReadable ==
    [][(/\ last.op = "reanalyze" /\ last.code = 200
        /\ last'.op = "reanalyze" /\ last'.code = 200
        /\ last'.id = last.id
        /\ CanReaddir(fs, last.id))
       => SameButAnalyzedAt(store'[last.id], store[last.id])]_vars

\* a readable run with a log and an evaluation document was reanalysed twice
\* in a row, the second time later than the first
C7_Witness ==
    /\ last.op = "reanalyze"
    /\ last.code = 200
    /\ last.streak >= 2
    /\ CanReaddir(fs, last.id)
    /\ fs[last.id].log.exists
    /\ store[last.id].evaluation_count > 0
    /\ store[last.id].last_analyzed_at > 1

\* what fs.statSync reports of the log file, if there is one
LogStat(dir) == IF dir.log.exists THEN <<dir.log.mtime, dir.log.text.size>> ELSE <<>>

IsMdEntry(e) == EndsWith(e.name, DotMd)

IsEvaluationDocument(e) == EndsWith(e.name, DotMd) /\ e.name # ReadmeMd /\ e.isFile

\* name, modification time and size of every entry that the digest covers
MdStats(dir) ==
    {<<dir.entries[i].name, dir.entries[i].mtime, dir.entries[i].size>> :
        i \in {k \in 1..Len(dir.entries) : IsMdEntry(dir.entries[k])}}

\* the same of every evaluation document
EvaluationStats(dir) ==
    {<<dir.entries[i].name, dir.entries[i].mtime, dir.entries[i].size>> :
        i \in {k \in 1..Len(dir.entries) : IsEvaluationDocument(dir.entries[k])}}

\* C8: on a readable directory the digest is a function of the file names,
\* modification times and sizes it covers, and it changes whenever the log's
\* modification time or size changes, an evaluation document's modification
\* time or size changes, or an evaluation document is added or removed.
C8_FingerprintTracksStats ==
    [][\A id \in DOMAIN fs \cap DOMAIN fs' :
           (/\ fs'[id] # fs[id] \/ rnd' # rnd
            /\ CanReaddir(fs, id) /\ CanReaddir(fs', id)) =>
               /\ (/\ LogStat(fs'[id]) = LogStat(fs[id])
                   /\ MdStats(fs'[id]) = MdStats(fs[id]))
                  => calculateRunHash(fs', id, rnd') = calculateRunHash(fs, id, rnd)
               /\ (\/ LogStat(fs'[id]) # LogStat(fs[id])
                   \/ EvaluationStats(fs'[id]) # EvaluationStats(fs[id]))
                  => calculateRunHash(fs', id, rnd') # calculateRunHash(fs, id, rnd)]_vars

\* the agent rewrote the log of an analysed run at a later time, and the
\* stored digest of the run no longer is the digest of its directory
C8_Witness ==
    /\ last.op = "session"
    /\ HasRow(store, last.id)
    /\ CanReaddir(fs, last.id)
    /\ ~store[last.id].file_hash.random
    /\ fs[last.id].log.mtime > store[last.id].last_analyzed_at
    /\ store[last.id].file_hash # calculateRunHash(fs, last.id, rnd)

\* C9: needsReanalysis answers true exactly when there is no row for the id
\* or the stored file_hash differs from the digest of the directory, and it
\* answers true whenever the directory cannot be read or the lookup fails.
C9_NeedsReanalysisAnswer ==
    last.op = "needsReanalysis" =>
        /\ (~dbUp \/ ~CanReaddir(fs, last.id)) => last.answer
        /\ (dbUp /\ CanReaddir(fs, last.id)) =>
               (last.answer <=>
                    \/ ~HasRow(store, last.id)
                    \/ store[last.id].file_hash # calculateRunHash(fs, last.id, rnd))

\* the lookup failed for a run whose stored digest is the digest of its
\* directory, and the answer was true
C9_Witness ==
    /\ last.op = "needsReanalysis"
    /\ ~dbUp
    /\ HasRow(store, last.id)
    /\ CanReaddir(fs, last.id)
    /\ store[last.id].file_hash = calculateRunHash(fs, last.id, rnd)
    /\ last.answer

\* C10: a successful scan leaves the row of every run whose stored file_hash
\* is the digest of its directory as it was, last_analyzed_at included.
C10_ScanSkipsUnchangedRuns ==
    [][(last'.op = "scan" /\ last'.code = 200) =>
          \A id \in DOMAIN store :
              (CanReaddir(fs, id) /\ store[id].file_hash = calculateRunHash(fs, id, rnd))
                  => store'[id] = store[id]]_vars

\* this step is the handling of a request op (and not the passing of time
\* after one)
Answered(op) == last'.op = op /\ last' # last

\* the run ids of a list
IdsOf(list) == {list[i] : i \in 1..Len(list)}

\* the run ids of the entries of a failed list
FailedIds(failed) == {failed[i].runId : i \in 1..Len(failed)}

\* C11: bulk reanalysis puts every requested id in exactly one of the lists
\* successful and failed, successCount + failedCount = totalProcessed, and an
\* id whose directory is missing or whose analysis throws is in the failed
\* list with a reason, whatever happened to the ids before it.
C11_BulkPartitionsRequestedIds ==
    (last.op = "bulk" /\ last.code = 200) =>
        LET results == last.answer
        IN /\ results.totalProcessed = Len(last.id)
           /\ results.successCount + results.failedCount = results.totalProcessed
           /\ results.successCount = Len(results.successful)
           /\ results.failedCount = Len(results.failed)
           /\ \A id \in IdsOf(last.id) :
                  /\ (id \in IdsOf(results.successful))
                         # (id \in FailedIds(results.failed))
                  /\ (~ExistsSync(fs, id) \/ analyzeRun(fs, id).threw) =>
                         \E i \in 1..Len(results.failed) :
                             /\ results.failed[i].runId = id
                             /\ results.failed[i].error # ""

\* a run without a directory came first, and the run after it, whose analysis
\* threw, was still processed
C11_Witness ==
    /\ last.op = "bulk"
    /\ last.code = 200
    /\ Len(last.id) = 2
    /\ ~ExistsSync(fs, last.id[1])
    /\ ExistsSync(fs, last.id[2])
    /\ last.answer.failedCount = 2

\* C12: bulk reanalysis of a run whose directory exists and whose log can be
\* analysed lists the run as successful and leaves the row that a single
\* reanalysis of the run would write.
C12_BulkEqualsSingleReanalysis ==
    [][(Answered("bulk") /\ last'.code = 200) =>
          \A id \in IdsOf(last'.id) :
              (ExistsSync(fs, id) /\ LogExists(fs, id)) =>
                  /\ id \in IdsOf(last'.answer.successful)
                  /\ HasRow(store', id)
                  /\ SameButAnalyzedAt(
                         store'[id],
                         UpsertParams(ReanalyzeRunData(store, fs, id, rnd), now))]_vars

\* C13: when the processing of one run directory fails during a scan, every
\* other directory that matches the naming convention is still imported and
\* reported.
C13_ScanIsolatesFailingRun ==
    [][(Answered("scan") /\ dbUp) =>
          \A id \in DOMAIN fs :
              (MatchesRunId(id) /\ id # last'.id) =>
                  /\ HasRow(store', id)
                  /\ store'[id].last_analyzed_at = now
                  /\ id \in IdsOf(last'.answer)]_vars

\* the run ids of the entries of a successful list of a batch delete
DeletedIds(successful) == {successful[i].runId : i \in 1..Len(successful)}

\* C14: batch delete processes every id of the list: an id without a row is
\* in the failed list with a reason and nothing of it is deleted, an id in the
\* successful list has no row afterwards, and every id is in one of the two
\* lists whatever happened to the ids before it.
C14_BatchDeleteProcessesEveryId ==
    [][(Answered("deleteBatch") /\ last'.code = 200) =>
          LET results == last'.answer.results
          IN \A id \in IdsOf(last'.id) :
                 /\ id \in DeletedIds(results.successful) \cup FailedIds(results.failed)
                 /\ ~(id \in DeletedIds(results.successful)
                      /\ id \in FailedIds(results.failed))
                 /\ (dbUp /\ ~HasRow(store, id)) =>
                        /\ \E i \in 1..Len(results.failed) :
                               /\ results.failed[i].runId = id
                               /\ results.failed[i].error # ""
                        /\ ExistsSync(fs, id) =>
                               (ExistsSync(fs', id) /\ fs'[id] = fs[id])
                 /\ id \in DeletedIds(results.successful) => ~HasRow(store', id)
                 /\ (HasRow(store, id) /\ ~HasRow(store', id)) =>
                        id \in DeletedIds(results.successful)]_vars

\* the first run of the list was not deleted and the second one was
C14_Witness ==
    /\ last.op = "deleteBatch"
    /\ last.code = 200
    /\ Len(last.id) = 2
    /\ FailedIds(last.answer.results.failed) = {last.id[1]}
    /\ DeletedIds(last.answer.results.successful) = {last.id[2]}
    /\ ~HasRow(store, last.id[2])
    /\ ~ExistsSync(fs, last.id[2])

\* C15: when the removal of a run's files fails in an individual or a batch
\* delete, the run's row is still there as it was and the failure is reported
\* for the run; a row is deleted only when the directory is gone or, in a
\* batch, the removal of files was not requested.
C15_RowSurvivesFailedFileRemoval ==
    [][/\ Answered("delete") =>
              LET id == last'.id
              IN /\ (HasRow(store, id) /\ dbUp /\ ExistsSync(fs, id)
                         /\ ExistsSync(fs', id))
                        => /\ HasRow(store', id)
                           /\ store'[id] = store[id]
                           /\ last'.code = 500
                 /\ (HasRow(store, id) /\ ~HasRow(store', id)) => ~ExistsSync(fs', id)
       /\ (Answered("deleteBatch") /\ last'.code = 200) =>
              \A id \in IdsOf(last'.id) :
                  /\ (HasRow(store, id) /\ last'.answer.deleteFiles
                          /\ ExistsSync(fs, id) /\ ExistsSync(fs', id))
                         => /\ HasRow(store', id)
                            /\ store'[id] = store[id]
                            /\ id \in FailedIds(last'.answer.results.failed)
                  /\ (HasRow(store, id) /\ ~HasRow(store', id)) =>
                         \/ ~ExistsSync(fs', id)
                         \/ ~last'.answer.deleteFiles /\ fs'[id] = fs[id]]_vars

\* a batch removed the log of the second run, could not unlink its
\* subdirectory, reported the run as failed and kept its row
C15_Witness ==
    /\ last.op = "deleteBatch"
    /\ last.code = 200
    /\ V2 \in FailedIds(last.answer.results.failed)
    /\ HasRow(store, V2)
    /\ ExistsSync(fs, V2)
    /\ ~fs[V2].log.exists

C17_FilesOnlyDeletesRowOnly ==
    [][(Answered("delete") /\ last'.code = 200 /\ last'.answer) =>
          LET id == last'.id
          IN /\ ~HasRow(store', id)
             /\ ExistsSync(fs, id) => (ExistsSync(fs', id) /\ fs'[id] = fs[id])]_vars

\* C18: after upsert(r) the row of r.id holds r's value in every column but
\* last_analyzed_at, nothing of the old row is left in it (it is the row the
\* same upsert writes into an empty table), and the other rows are unchanged.
C18_UpsertOverwrites ==
    [][Answered("upsert") =>
          LET r == probe
          IN /\ DOMAIN store' = DOMAIN store \cup {r.id}
             /\ \A f \in (Columns \cap DOMAIN r) \ {"last_analyzed_at"} :
                    store'[r.id][f] = r[f]
             /\ store'[r.id] = upsertRun(EmptyMap, r, now)[r.id]
             /\ \A x \in DOMAIN store \ {r.id} : store'[x] = store[x]]_vars

\* C18, amended: the same, but an empty agent_name or application_name of r
\* is stored as "unknown".
C18_UpsertOverwritesButEmptyNames ==
    [][Answered("upsert") =>
          LET r == probe
          IN /\ DOMAIN store' = DOMAIN store \cup {r.id}
             /\ \A f \in (Columns \cap DOMAIN r) \ {"last_analyzed_at"} :
                    IF f \in {"agent_name", "application_name"} /\ r[f] = ""
                    THEN store'[r.id][f] = "unknown"
                    ELSE store'[r.id][f] = r[f]
             /\ store'[r.id] = upsertRun(EmptyMap, r, now)[r.id]
             /\ \A x \in DOMAIN store \ {r.id} : store'[x] = store[x]]_vars

\* runData without the optional columns replaced a row that had them, next to
\* the row of another run
C18_Witness ==
    /\ last.op = "upsert"
    /\ probe = SparseRunData(V1)
    /\ HasRow(store, V2)
    /\ store[V1].evaluation_files = <<>>
    /\ store[V1].agent_name = "unknown"

\* the k-th name of the logical name Eval: Eval.md, Eval-1.md, Eval-2.md, ...
NumberedName(k) ==
    IF k = 0 THEN EvalBase \o DotMd
    ELSE EvalBase \o <<"-">> \o NumberToString(k) \o DotMd

NumberedNames(n) == [k \in 1..n |-> NumberedName(k - 1)]

\* the names of the entries of a run directory, log.txt included
NamesIn(dir) == IdsOf(ReaddirAll(dir))

\* multer's temporary names
IsTempName(name) == Len(name) >= 5 /\ SubSeq(name, 1, 5) = <<"t", "e", "m", "p", "_">>

\* C19: a successful evaluation upload stores the document under the first of
\* Eval.md, Eval-1.md, Eval-2.md, ... that is no entry of the run directory,
\* and leaves the log and every other entry (multer's temporary files aside)
\* as they were; and when the row lists Eval.md .. Eval-(n-1).md in this order
\* and these are the evaluation documents of the directory (n = 0: none), the
\* row lists Eval.md .. Eval-n.md afterwards and evaluation_count is n + 1.
C19_UploadsAreNumbered ==
    [][(Answered("evaluation") /\ last'.code = 200) =>
          LET id == last'.id
              before == IF ExistsSync(fs, id) THEN fs[id] ELSE NewDir(now)
              after == fs'[id]
              n == Len(store[id].evaluation_files)
          IN /\ \E k \in 0..Len(after.entries) :
                    /\ NumberedName(k) \notin NamesIn(before)
                    /\ \A j \in 0..(k - 1) : NumberedName(j) \in NamesIn(before)
                    /\ NamesIn(after) \ NamesIn(before) = {NumberedName(k)}
             /\ after.log = before.log
             /\ \A i \in 1..Len(before.entries) :
                    ~IsTempName(before.entries[i].name) =>
                        \E j \in 1..Len(after.entries) :
                            after.entries[j] = before.entries[i]
             /\ (/\ store[id].evaluation_files = NumberedNames(n)
                 /\ {e[1] : e \in EvaluationStats(before)} = IdsOf(NumberedNames(n)))
                => /\ store'[id].evaluation_files = NumberedNames(n + 1)
                   /\ store'[id].evaluation_count = n + 1]_vars

\* two uploads in a row to a run without evaluation documents: Eval.md, Eval-1.md
C19_Witness ==
    /\ last.op = "evaluation"
    /\ last.code = 200
    /\ last.streak = 2
    /\ store[last.id].evaluation_files = NumberedNames(2)
    /\ store[last.id].evaluation_count = 2
    /\ NumberedName(1) \in NamesIn(fs[last.id])

\* C20: when two evaluation uploads to the same run both answered 200, the
\* row lists the stored filename of each of them and evaluation_count counts
\* every listed file.
C20_NoLostEvaluationUpload ==
    (\A p \in Uploaders : uploads[p].pc = "done" /\ uploads[p].code = 200) =>
        /\ \A p \in Uploaders :
               uploads[p].finalFilename \in IdsOf(store[V1].evaluation_files)
        /\ store[V1].evaluation_count = Len(store[V1].evaluation_files)
        /\ Cardinality({uploads[p].finalFilename : p \in Uploaders})
               = Cardinality(Uploaders)

\* the columns that analysis fills from the files of the run
AnalysedColumns ==
    {"status", "duration", "reasoning_judgement", "detection_accuracy", "steps",
     "input_tokens", "output_tokens", "reasoning_score", "has_log_file",
     "evaluation_files", "evaluation_count"}

\* the row of the run holds what an analysis of the files as they are gives
AnalysedFromFinalFiles(id) ==
    LET fresh == UpsertParams(ReanalyzeRunData(store, fs, id, rnd), now)
    IN \A f \in AnalysedColumns : store[id][f] = fresh[f]

\* C21: once a reanalysis or scan of a run has finished, whatever writes to
\* the run's files happened meanwhile, either the stored metrics and
\* evaluation list are those of the files as they are, or needsReanalysis
\* answers true for the run.
C21_StaleAnalysisIsDetected ==
    (uploads.pc = "done" /\ uploads.code = 200 /\ HasRow(store, V1)) =>
        \/ AnalysedFromFinalFiles(V1)
        \/ needsReanalysis(store, fs, V1, rnd, TRUE)

\* the scores that the evaluation documents of a directory carry
DocumentScores(dir) ==
    {i \in 1..Len(dir.entries) :
        IsEvaluationDocument(dir.entries[i]) /\ dir.entries[i].score # Undefined}

\* C22: the reasoning judgement that analysis gives comes from the run's
\* evaluation documents: it is the default 'N/A' exactly when no document
\* carries a score, and two runs whose documents carry the same scores get
\* the same judgement whatever their logs say.
C22_JudgementFromEvaluationDocuments ==
    last.op = "analyze" =>
        (last.answer.reasoning_judgement = "N/A") = (DocumentScores(fs[V1]) = {})

\* the default of each field of the analysis
FieldDefaults ==
    [Detection_Accuracy |-> "Unknown", TTD |-> 0, steps |-> 0, in_tokens |-> 0,
     out_tokens |-> 0, reasoning_judgement |-> "N/A", reasoning_score |-> 0]

\* the field of the analysis that holds the value of a key of the block
FieldOf ==
    [Detection_Accuracy |-> "detectionAccuracy", TTD |-> "duration", steps |-> "steps",
     in_tokens |-> "inputTokens", out_tokens |-> "outputTokens",
     reasoning_judgement |-> "reasoning_judgement", reasoning_score |-> "reasoningScore"]

\* the value the block gives for a key when the key is there and its value
\* is well-formed, the default of the field otherwise
GivenOrDefault(text, key) ==
    LET i == IndexOfKey(text.entries, key)
    IN IF ~text.hasBlock \/ i = 0 \/ text.entries[i].kind = "None"
       THEN FieldDefaults[key]
       ELSE GivenValues[key]

\* C23: every field of the analysis is the value its key has in the results
\* block when the key is there with a well-formed value and the default of
\* the field otherwise, whatever the other entries of the block are; a log
\* without a block gives the default in every field.
C23_FieldsExtractedIndependently ==
    last.op = "analyze" =>
        \A key \in IdsOf(BlockKeys) :
            last.answer[FieldOf[key]] = GivenOrDefault(fs[V1].log.text, key)

\* a is the mean of the column over the given rows, rounded to the nearest
\* integer (a half upwards), and 0 when there is no row
IsRoundedMean(a, column, ids) ==
    IF ids = {} THEN a = 0
    ELSE LET n == Cardinality(ids)
             twice == 2 * SumOf(store, column, ids)
         IN n * (2 * a - 1) <= twice /\ twice < n * (2 * a + 1)

\* C24: the statistics give the number of rows, the number of rows of each of
\* the statuses success, partial and failed, and for duration and
\* reasoning_score the rounded mean over the rows with a positive value, 0
\* when no row has one.
C24_StatsCountAndAverage ==
    (last.op = "stats" /\ last.code = 200) =>
        /\ last.answer.totalRuns = Cardinality(DOMAIN store)
        /\ last.answer.successRuns =
               Cardinality({id \in DOMAIN store : store[id].status = "success"})
        /\ last.answer.partialRuns =
               Cardinality({id \in DOMAIN store : store[id].status = "partial"})
        /\ last.answer.failedRuns =
               Cardinality({id \in DOMAIN store : store[id].status = "failed"})
        /\ IsRoundedMean(last.answer.avgDuration, "duration",
                         {id \in DOMAIN store : store[id].duration > 0})
        /\ IsRoundedMean(last.answer.avgReasoningScore, "reasoning_score",
                         {id \in DOMAIN store : store[id].reasoning_score > 0})

\* statistics of a table with rows of duration 0, 1 and 4: the average is 3,
\* the mean 2.5 of the two positive durations rounded upwards
C24_Witness ==
    /\ last.op = "stats"
    /\ last.code = 200
    /\ {store[id].duration : id \in DOMAIN store} = {0, 1, 4}
    /\ last.answer.avgDuration = 3
    /\ last.answer.totalRuns = 3

\* C25: the digest covers the log and the files that discoverEvaluationFiles
\* reports, and nothing else: when neither the log nor a discovered document
\* changed, the digest is the same, and when one of them changed, it differs.
C25_FingerprintCoversDiscoveredFilesOnly ==
    [][LET before == calculateRunHash(fs, V1, rnd)
           after == calculateRunHash(fs', V1, rnd')
           same == /\ LogStat(fs'[V1]) = LogStat(fs[V1])
                   /\ EvaluationStats(fs'[V1]) = EvaluationStats(fs[V1])
                   /\ discoverEvaluationFiles(fs', V1) = discoverEvaluationFiles(fs, V1)
       IN same = (after = before)]_vars

\* C26: in every answer of a batch delete the counters agree with the lists:
\* totalDeleted is the length of successful, totalFailed the length of
\* failed, and together they count the submitted ids.
C26_BatchCountersAgreeWithLists ==
    (last.op = "deleteBatch" /\ last.code = 200) =>
        LET results == last.answer.results
        IN /\ results.totalDeleted = Len(results.successful)
           /\ results.totalFailed = Len(results.failed)
           /\ results.totalDeleted + results.totalFailed = Len(last.id)

\* C27: a log upload or an evaluation upload that is answered with 404 (no
\* row for the run) or 400 (no file, or an evaluation file whose name does not
\* end in .md) leaves the table and the run store as they were.
C27_RejectedUploadChangesNothing ==
    [][((Answered("log") \/ Answered("evaluation")) /\ last'.code \in {400, 404}) =>
           (fs' = fs /\ store' = store)]_vars

\* C28: when a delete of a run that started after a reanalysis or scan of the
\* run has answered 200 and the other request has finished too, the table
\* has no row for the run.
C28_DeleteIsNotUndone ==
    (uploads.delPc = "done" /\ uploads.delCode = 200 /\ uploads.pc = "done") =>
        ~HasRow(store, V1)

\* the errors after which safeFetch tries again
Retriable(call) ==
    \/ call.error \in {"AbortError", "TypeError"}
    \/ (call.error = "HttpError" /\ call.status >= 500)

\* no call sends more than 1 + MAX_ATTEMPTS requests
C29_AtMostFourRequests ==
    \A c \in Callers : uploads.calls[c].requests <= 1 + MAX_ATTEMPTS

\* a further request follows a timeout, a network error or a status >= 500
C29_RetryOnlyAfterRetriableError ==
    [][\A c \in Callers :
           (uploads'.calls[c].requests > uploads.calls[c].requests
            /\ uploads.calls[c].requests >= 1)
               => Retriable(uploads.calls[c])]_vars

\* C29: every call of safeFetch ends, with the data or with an error thrown,
\* after at most 1 + MAX_ATTEMPTS requests, and it sends a further request
\* only after a timeout, a network TypeError or a status >= 500.
C29_SafeFetchTerminates ==
    /\ []C29_AtMostFourRequests
    /\ C29_RetryOnlyAfterRetriableError
    /\ \A c \in Callers :
           (uploads.calls[c].pc # "idle") ~> (uploads.calls[c].pc = "done")

\* the number of invocations of safeFetch in progress
RECURSIVE FramesOf(_)
FramesOf(callers) ==
    IF callers = {} THEN 0
    ELSE LET c == CHOOSE x \in callers : TRUE
         IN uploads.calls[c].frames + FramesOf(callers \ {c})

====
